---- MODULE Spec2Model ----
(***************************************************************************)
(* Stack walking and on-stack replacement (OSR) in the CoreCLR VM.         *)
(*                                                                         *)
(* Part I   models the patchpoint helper of vm/jithelpers.cpp: the         *)
(*          per-patchpoint record shared by all threads, and each thread's *)
(*          position inside PatchpointOptimizationPolicy /                 *)
(*          PatchpointRequiredPolicy, one step per shared-memory access.   *)
(* Part II  models StackFrameIterator and Thread::StackWalkFramesEx of     *)
(*          vm/stackwalk.cpp over synthetic stacks.                        *)
(***************************************************************************)
EXTENDS Integers, Sequences, FiniteSets, TLC

(***************************************************************************)
(* Bounds of the model.                                                    *)
(***************************************************************************)
\* number of threads that hit the one patchpoint
NumThreads == 2
\* g_pConfig->OSR_HitLimit(): a configuration value, small here
HitLimit == 2
\* number of items (managed frames, native runs, explicit Frames) on a walked stack
MaxDepth == 3

VARIABLES
    \* ---- PerPatchpointInfo (shared), one record per patchpoint of the method ----
    m_flags,            \* subset of {patchpoint_triggered, patchpoint_invalid}
    m_patchpointCount,  \* hit counter, saturating at HitLimit
    m_osrMethodCode,    \* NULL or the address of the OSR method
    reached,            \* the patchpoints of the method that each thread reaches
    \* ---- per thread, inside the helper ----
    opc,                \* position of each thread in the helper
    ppInfo,             \* local PerPatchpointInfo *ppInfo: the patchpoint that was hit
    counter,            \* *counter: the counter in the method's frame, one for all
                        \* patchpoints of the method
    policy,             \* "opt" (counter != NULL) or "req" (counter == NULL)
    oldFlags,           \* local LONG oldFlags
    newFlags,           \* local LONG newFlags
    osrMethodCode,      \* local PCODE osrMethodCode / newMethodCode
    hitCount,           \* local hitCount
    obtained,           \* code address the thread transitioned to, or NULL
    frameContext,       \* local CONTEXT *pFrameContext, once restored
    methodFrame,        \* the frame of the method with the patchpoint, per thread
    \* ---- process ----
    fatal,              \* EEPOLICY_HANDLE_FATAL_ERROR was raised
    jitCalls,           \* JitPatchpointWorker invocations: <<thread, result>>
    casWins             \* threads whose InterlockedCompareExchange on m_flags succeeded

osrVars == <<m_flags, m_patchpointCount, m_osrMethodCode, reached, opc, ppInfo, counter,
             policy, oldFlags,
             newFlags, osrMethodCode, hitCount, obtained, frameContext, methodFrame,
             fatal, jitCalls, casWins>>

VARIABLES
    \* ---- the walked thread ----
    stk,                \* its stack, leaf first; the index of an item is its address
    target,             \* the build target the runtime was compiled for
    exInfo,             \* its exception state (ExInfo chain / current tracker)
    funcletParent,      \* for the SP of each funclet frame: the caller SP of its parent
    badCookies,         \* addresses of GS cookies that differ from GetProcessGSCookie()
    unwindFault,        \* <<>> or <<SP, how>>: unwinding the managed frame at SP fails
                        \* ("fail"), yields an SP outside the stack ("oob") or a
                        \* wrong SP inside it ("low")
    \* ---- Thread::StackWalkFramesEx ----
    caller,             \* who calls: the thread, its GC mode, pCallback, pRD->pContextForUnwind
    flags,              \* the flags argument
    iter,               \* StackFrameIterator iter, with m_crawl, its REGDISPLAY and
                        \* the fields of the Thread it writes
    wpc,                \* position inside StackWalkFramesEx / MakeStackwalkerCallback
    retVal,             \* local StackWalkAction retVal
    swa,                \* local StackWalkAction swa of MakeStackwalkerCallback
    trace,              \* the positions handed to the callback, with its answers
    log,                \* what the driver did, in order
    start,              \* the thread's state when the walk began
    prev,               \* trace and result of the preceding walk of the same stack
    \* ---- the walking thread ----
    t_pStackWalkerWalkingThread,  \* thread_local: the Thread this thread is walking
    pStackWalkThreadOrig          \* local Thread* pStackWalkThreadOrig of StackWalkFramesEx

walkerVars == <<t_pStackWalkerWalkingThread, pStackWalkThreadOrig>>

walkVars == <<stk, target, exInfo, funcletParent, badCookies, unwindFault, caller, flags,
              iter, wpc, retVal, swa, trace, log, start, prev, walkerVars>>

VARIABLES
    \* ---- CorHost2 (vm/corhost.cpp): process ----
    g_fEEStarted,       \* the execution engine has been started
    m_RefCount,         \* static LONG CorHost2::m_RefCount
    lockOnlyOneToInvokeStart,  \* the spin lock of Start: the thread that holds it, or 0
    \* ---- per host object ----
    m_fStarted,         \* this host has invoked Start
    m_fFirstToLoadCLR,  \* this host loaded and started the runtime
    \* ---- per thread inside Start() / Stop() ----
    hostPc,             \* position of each thread
    pHost,              \* "this" of the call
    hr,                 \* local HRESULT hr
    refCount,           \* local LONG refCount of Stop
    \* ---- history ----
    hostCalls,          \* calls each thread has made
    callDelta,          \* by how much the call a thread is in has changed m_RefCount so far
    started,            \* per host: Start() calls that incremented m_RefCount
    stopped             \* per host: Stop() calls that decremented m_RefCount

hostVars == <<g_fEEStarted, m_RefCount, lockOnlyOneToInvokeStart, m_fStarted,
              m_fFirstToLoadCLR, hostPc, pHost, hr, refCount, hostCalls, callDelta,
              started, stopped>>

VARIABLES
    \* ---- PerfJitDumpState (pal/src/misc/perfjitdump.cpp) ----
    enabled,            \* volatile bool enabled
    fd,                 \* the dump file is open
    codeIndex,          \* volatile uint64_t codeIndex
    dumpFile,           \* the records written to the file, in order: their code_index
    \* ---- per thread inside LogMethod ----
    dumpPc,             \* position of each thread
    code_index,         \* record.code_index
    dumpCalls           \* LogMethod calls each thread has made

dumpVars == <<enabled, fd, codeIndex, dumpFile, dumpPc, code_index, dumpCalls>>

libVars == <<hostVars, dumpVars>>

vars == <<osrVars, walkVars, libVars>>

(***************************************************************************)
(* Part I: OSR patchpoint policies (vm/jithelpers.cpp)                     *)
(***************************************************************************)
NULL == "NULL"
patchpoint_triggered == "patchpoint_triggered"
patchpoint_invalid == "patchpoint_invalid"

Threads == 1..NumThreads
\* the patchpoints of the method: the helper's return addresses
Patchpoints == {"P", "Q"}
\* g_pConfig->OSR_CounterBump()
OSR_CounterBump == 1
\* addresses PrepareCode may return for the OSR variant
OsrCodes == {"osrA", "osrB"}

Min(a, b) == IF a < b THEN a ELSE b

HasFlag(f, bit) == bit \in f

\* InterlockedCompareExchange(&ppInfo->m_flags, newF, oldF) == oldF
CasSucceeds_mut(cur, oldF) == TRUE
CasSucceeds(cur, oldF) == cur = oldF

\* if (osrMethodCode == (PCODE)NULL): no OSR method yet, see if one should be created
NeedsOsrMethod_mut(code) == TRUE
NeedsOsrMethod(code) == code = NULL

\* InterlockedIncrement(&ppInfo->m_patchpointCount); the model saturates the
\* counter at HitLimit, which keeps every comparison with hitLimit exact.
IncrementCount(c) == Min(c + 1, HitLimit)

\* hitCount < hitLimit: defer
BelowLimit_mut(h) == FALSE
BelowLimit(h) == h < HitLimit

OsrFlagLocalsUnchanged == UNCHANGED <<oldFlags, newFlags, osrMethodCode, hitCount>>
OsrLocalsUnchanged == OsrFlagLocalsUnchanged /\ UNCHANGED frameContext
OsrSharedUnchanged == UNCHANGED <<m_flags, m_patchpointCount, m_osrMethodCode>>
\* the patchpoint a hit is at, and the method's counter
OsrHitUnchanged == UNCHANGED <<ppInfo, counter, reached>>
\* the history, and the stack below the helper, which the helper leaves alone
OsrGhostUnchanged == UNCHANGED <<jitCalls, casWins, methodFrame>>

\* the helper never touches the stack walker's state
Goto(t, l) == opc' = [opc EXCEPT ![t] = l] /\ UNCHANGED <<walkVars, libVars>>

\* OnStackReplacementManager::GetPerPatchpointInfo: the record of the
\* patchpoint at ip, one record per patchpoint
GetPerPatchpointInfo(ip) == ip

\* JIT_PatchpointWorkerWorkerWithPolicy entry: pick the policy from counter == NULL
HelperEnter(t) ==
    /\ ~fatal
    /\ opc[t] = "idle"
    /\ \E ip \in reached[t] : ppInfo' = [ppInfo EXCEPT ![t] = GetPerPatchpointInfo(ip)]
    /\ counter' = [counter EXCEPT ![t] = IF policy[t] = "req" THEN @ ELSE 0]
    /\ Goto(t, IF policy[t] = "req" THEN "R_entry" ELSE "O_readCode")
    /\ UNCHANGED <<policy, obtained, fatal, reached>>
    /\ OsrLocalsUnchanged /\ OsrSharedUnchanged /\ OsrGhostUnchanged

\* PCODE osrMethodCode = ppInfo->m_osrMethodCode; *counter = counterBump;
OptReadCode(t) ==
    /\ ~fatal
    /\ opc[t] = "O_readCode"
    /\ counter' = [counter EXCEPT ![t] = OSR_CounterBump]
    /\ UNCHANGED <<ppInfo, reached>>
    /\ osrMethodCode' = [osrMethodCode EXCEPT ![t] = m_osrMethodCode[ppInfo[t]]]
    /\ Goto(t, "O_checkInvalid")
    /\ UNCHANGED <<policy, obtained, fatal, oldFlags, newFlags, hitCount>>
    /\ OsrSharedUnchanged /\ OsrGhostUnchanged
    /\ UNCHANGED frameContext

\* if (m_flags & patchpoint_invalid) goto DONE;  if (osrMethodCode == NULL) {...}
OptCheckInvalid_mut(t) ==
    /\ ~fatal
    /\ opc[t] = "O_checkInvalid"
    /\ Goto(t, IF NeedsOsrMethod(osrMethodCode[t]) THEN "O_count" ELSE "ret_code")
    /\ UNCHANGED <<policy, obtained, fatal>>
    /\ OsrLocalsUnchanged /\ OsrSharedUnchanged /\ OsrGhostUnchanged
    /\ OsrHitUnchanged
OptCheckInvalid(t) ==
    /\ ~fatal
    /\ opc[t] = "O_checkInvalid"
    /\ Goto(t, IF HasFlag(m_flags[ppInfo[t]], patchpoint_invalid) THEN "ret_null"
               ELSE IF NeedsOsrMethod(osrMethodCode[t]) THEN "O_count"
               ELSE "ret_code")
    /\ UNCHANGED <<policy, obtained, fatal>>
    /\ OsrLocalsUnchanged /\ OsrSharedUnchanged /\ OsrGhostUnchanged
    /\ OsrHitUnchanged

\* hitCount = InterlockedIncrement(&m_patchpointCount); if (hitCount < hitLimit) goto DONE;
OptCount(t) ==
    /\ ~fatal
    /\ opc[t] = "O_count"
    /\ m_patchpointCount' = [m_patchpointCount EXCEPT ![ppInfo[t]] = IncrementCount(m_patchpointCount[ppInfo[t]])]
    /\ hitCount' = [hitCount EXCEPT ![t] = IncrementCount(m_patchpointCount[ppInfo[t]])]
    /\ Goto(t, IF BelowLimit(IncrementCount(m_patchpointCount[ppInfo[t]])) THEN "ret_null" ELSE "O_readFlags")
    /\ UNCHANGED <<policy, obtained, fatal, oldFlags, newFlags, osrMethodCode,
                   m_flags, m_osrMethodCode>>
    /\ OsrGhostUnchanged
    /\ UNCHANGED frameContext
    /\ OsrHitUnchanged

\* LONG oldFlags = ppInfo->m_flags; if (oldFlags & patchpoint_triggered) goto DONE;
OptReadFlags_mut(t) ==
    /\ ~fatal
    /\ opc[t] = "O_readFlags"
    /\ oldFlags' = [oldFlags EXCEPT ![t] = m_flags[ppInfo[t]]]
    /\ newFlags' = [newFlags EXCEPT ![t] = m_flags[ppInfo[t]] \cup {patchpoint_triggered}]
    /\ Goto(t, "O_cas")
    /\ UNCHANGED <<policy, obtained, fatal, osrMethodCode, hitCount>>
    /\ OsrSharedUnchanged /\ OsrGhostUnchanged
    /\ UNCHANGED frameContext
    /\ OsrHitUnchanged
OptReadFlags(t) ==
    /\ ~fatal
    /\ opc[t] = "O_readFlags"
    /\ oldFlags' = [oldFlags EXCEPT ![t] = m_flags[ppInfo[t]]]
    /\ newFlags' = [newFlags EXCEPT ![t] = m_flags[ppInfo[t]] \cup {patchpoint_triggered}]
    /\ Goto(t, IF HasFlag(m_flags[ppInfo[t]], patchpoint_triggered) THEN "ret_null" ELSE "O_cas")
    /\ UNCHANGED <<policy, obtained, fatal, osrMethodCode, hitCount>>
    /\ OsrSharedUnchanged /\ OsrGhostUnchanged
    /\ UNCHANGED frameContext
    /\ OsrHitUnchanged

\* triggerTransition = InterlockedCompareExchange(&m_flags, newFlags, oldFlags) == oldFlags
OptCas(t) ==
    /\ ~fatal
    /\ opc[t] = "O_cas"
    /\ IF CasSucceeds(m_flags[ppInfo[t]], oldFlags[t])
         THEN /\ m_flags' = [m_flags EXCEPT ![ppInfo[t]] = newFlags[t]]
              /\ casWins' = Append(casWins, t)
              /\ Goto(t, "O_rereadCode")
         ELSE /\ UNCHANGED <<m_flags, casWins>>
              /\ Goto(t, "ret_null")
    /\ UNCHANGED <<policy, obtained, fatal, m_patchpointCount, m_osrMethodCode, jitCalls>>
    /\ OsrLocalsUnchanged
    /\ UNCHANGED methodFrame
    /\ OsrHitUnchanged

\* osrMethodCode = ppInfo->m_osrMethodCode; if (osrMethodCode == NULL) {...}
OptRereadCode(t) ==
    /\ ~fatal
    /\ opc[t] = "O_rereadCode"
    /\ osrMethodCode' = [osrMethodCode EXCEPT ![t] = m_osrMethodCode[ppInfo[t]]]
    /\ Goto(t, IF m_osrMethodCode[ppInfo[t]] = NULL THEN "O_jit" ELSE "ret_code")
    /\ UNCHANGED <<policy, obtained, fatal, oldFlags, newFlags, hitCount>>
    /\ OsrSharedUnchanged /\ OsrGhostUnchanged
    /\ UNCHANGED frameContext
    /\ OsrHitUnchanged

\* osrMethodCode = JitPatchpointWorker(pMD, codeInfo, ilOffset): NULL on failure
JitPatchpointWorker(t, code) ==
    /\ osrMethodCode' = [osrMethodCode EXCEPT ![t] = code]
    /\ jitCalls' = Append(jitCalls, <<t, code>>)

OptJit(t) ==
    /\ ~fatal
    /\ opc[t] = "O_jit"
    /\ \E code \in OsrCodes \cup {NULL} : JitPatchpointWorker(t, code)
    /\ Goto(t, "O_publish")
    /\ UNCHANGED <<policy, obtained, fatal, oldFlags, newFlags, hitCount, casWins>>
    /\ OsrSharedUnchanged
    /\ UNCHANGED frameContext
    /\ UNCHANGED methodFrame
    /\ OsrHitUnchanged

\* InterlockedOr(&ppInfo->m_flags, patchpoint_invalid)
MarkInvalid_mut(f) == f
MarkInvalid(f) == f \cup {patchpoint_invalid}

\* failure: InterlockedOr(&m_flags, patchpoint_invalid); success: m_osrMethodCode = osrMethodCode
OptPublish(t) ==
    /\ ~fatal
    /\ opc[t] = "O_publish"
    /\ IF osrMethodCode[t] = NULL
         THEN /\ m_flags' = [m_flags EXCEPT ![ppInfo[t]] = MarkInvalid(m_flags[ppInfo[t]])]
              /\ UNCHANGED m_osrMethodCode
              /\ Goto(t, "ret_null")
         ELSE /\ m_osrMethodCode' = [m_osrMethodCode EXCEPT ![ppInfo[t]] = osrMethodCode[t]]
              /\ UNCHANGED m_flags
              /\ Goto(t, "ret_code")
    /\ UNCHANGED <<policy, obtained, fatal, m_patchpointCount>>
    /\ OsrLocalsUnchanged /\ OsrGhostUnchanged
    /\ OsrHitUnchanged

\* if (m_flags & patchpoint_invalid) EEPOLICY_HANDLE_FATAL_ERROR(...)
ReqEntry(t) ==
    /\ ~fatal
    /\ opc[t] = "R_entry"
    /\ IF HasFlag(m_flags[ppInfo[t]], patchpoint_invalid)
         THEN fatal' = TRUE /\ Goto(t, "fatal")
         ELSE UNCHANGED fatal /\ Goto(t, "R_loop")
    /\ UNCHANGED <<policy, obtained>>
    /\ OsrLocalsUnchanged /\ OsrSharedUnchanged /\ OsrGhostUnchanged
    /\ OsrHitUnchanged

\* while (ppInfo->m_osrMethodCode == NULL)
ReqLoopTest(t) ==
    /\ ~fatal
    /\ opc[t] = "R_loop"
    /\ Goto(t, IF m_osrMethodCode[ppInfo[t]] = NULL THEN "R_checkInvalid" ELSE "R_exit")
    /\ UNCHANGED <<policy, obtained, fatal>>
    /\ OsrLocalsUnchanged /\ OsrSharedUnchanged /\ OsrGhostUnchanged
    /\ OsrHitUnchanged

\* in the loop: invalid patchpoints are fatal
ReqCheckInvalid_mut(t) ==
    /\ ~fatal
    /\ opc[t] = "R_checkInvalid"
    /\ UNCHANGED fatal /\ Goto(t, "R_readFlags")
    /\ UNCHANGED <<policy, obtained>>
    /\ OsrLocalsUnchanged /\ OsrSharedUnchanged /\ OsrGhostUnchanged
    /\ OsrHitUnchanged
ReqCheckInvalid(t) ==
    /\ ~fatal
    /\ opc[t] = "R_checkInvalid"
    /\ IF HasFlag(m_flags[ppInfo[t]], patchpoint_invalid)
         THEN fatal' = TRUE /\ Goto(t, "fatal")
         ELSE UNCHANGED fatal /\ Goto(t, "R_readFlags")
    /\ UNCHANGED <<policy, obtained>>
    /\ OsrLocalsUnchanged /\ OsrSharedUnchanged /\ OsrGhostUnchanged
    /\ OsrHitUnchanged

\* LONG oldFlags = m_flags; if (oldFlags & patchpoint_triggered) { __SwitchToThread; continue; }
ReqReadFlags(t) ==
    /\ ~fatal
    /\ opc[t] = "R_readFlags"
    /\ oldFlags' = [oldFlags EXCEPT ![t] = m_flags[ppInfo[t]]]
    /\ Goto(t, IF HasFlag(m_flags[ppInfo[t]], patchpoint_triggered) THEN "R_loop" ELSE "R_newFlags")
    /\ UNCHANGED <<policy, obtained, fatal, newFlags, osrMethodCode, hitCount>>
    /\ OsrSharedUnchanged /\ OsrGhostUnchanged
    /\ UNCHANGED frameContext
    /\ OsrHitUnchanged

\* LONG newFlags = ppInfo->m_flags | patchpoint_triggered;   (a second read of m_flags)
ReqNewFlags(t) ==
    /\ ~fatal
    /\ opc[t] = "R_newFlags"
    /\ newFlags' = [newFlags EXCEPT ![t] = m_flags[ppInfo[t]] \cup {patchpoint_triggered}]
    /\ Goto(t, "R_cas")
    /\ UNCHANGED <<policy, obtained, fatal, oldFlags, osrMethodCode, hitCount>>
    /\ OsrSharedUnchanged /\ OsrGhostUnchanged
    /\ UNCHANGED frameContext
    /\ OsrHitUnchanged

\* triggerTransition = InterlockedCompareExchange(&m_flags, newFlags, oldFlags) == oldFlags
ReqCas(t) ==
    /\ ~fatal
    /\ opc[t] = "R_cas"
    /\ IF CasSucceeds(m_flags[ppInfo[t]], oldFlags[t])
         THEN /\ m_flags' = [m_flags EXCEPT ![ppInfo[t]] = newFlags[t]]
              /\ casWins' = Append(casWins, t)
              /\ Goto(t, "R_jit")
         ELSE /\ UNCHANGED <<m_flags, casWins>>
              /\ Goto(t, "R_loop")
    /\ UNCHANGED <<policy, obtained, fatal, m_patchpointCount, m_osrMethodCode, jitCalls>>
    /\ OsrLocalsUnchanged
    /\ UNCHANGED methodFrame
    /\ OsrHitUnchanged

\* PCODE newMethodCode = JitPatchpointWorker(pMD, codeInfo, ilOffset);
ReqJit(t) ==
    /\ ~fatal
    /\ opc[t] = "R_jit"
    /\ \E code \in OsrCodes \cup {NULL} : JitPatchpointWorker(t, code)
    /\ Goto(t, "R_publish")
    /\ UNCHANGED <<policy, obtained, fatal, oldFlags, newFlags, hitCount, casWins>>
    /\ OsrSharedUnchanged
    /\ UNCHANGED frameContext
    /\ UNCHANGED methodFrame
    /\ OsrHitUnchanged

\* failure: InterlockedOr invalid, then fatal; success: m_osrMethodCode = newMethodCode
ReqPublish(t) ==
    /\ ~fatal
    /\ opc[t] = "R_publish"
    /\ IF osrMethodCode[t] = NULL
         THEN /\ m_flags' = [m_flags EXCEPT ![ppInfo[t]] = MarkInvalid(m_flags[ppInfo[t]])]
              /\ fatal' = TRUE
              /\ UNCHANGED m_osrMethodCode
              /\ Goto(t, "fatal")
         ELSE /\ m_osrMethodCode' = [m_osrMethodCode EXCEPT ![ppInfo[t]] = osrMethodCode[t]]
              /\ UNCHANGED <<m_flags, fatal>>
              /\ Goto(t, "R_loop")
    /\ UNCHANGED <<policy, obtained, m_patchpointCount>>
    /\ OsrLocalsUnchanged /\ OsrGhostUnchanged
    /\ OsrHitUnchanged

\* PCODE osrMethodCode = ppInfo->m_osrMethodCode; return osrMethodCode;
ReqExit(t) ==
    /\ ~fatal
    /\ opc[t] = "R_exit"
    /\ osrMethodCode' = [osrMethodCode EXCEPT ![t] = m_osrMethodCode[ppInfo[t]]]
    /\ Goto(t, "ret_code")
    /\ UNCHANGED <<policy, obtained, fatal, oldFlags, newFlags, hitCount>>
    /\ OsrSharedUnchanged /\ OsrGhostUnchanged
    /\ UNCHANGED frameContext
    /\ OsrHitUnchanged

\* helper: if (osrMethodCode == NULL) goto DONE  -- back in the original method
HelperReturn(t) ==
    /\ ~fatal
    /\ opc[t] = "ret_null"
    /\ Goto(t, "idle")
    /\ UNCHANGED <<policy, obtained, fatal>>
    /\ OsrLocalsUnchanged /\ OsrSharedUnchanged /\ OsrGhostUnchanged
    /\ OsrHitUnchanged

\* ---- the transition ----
TARGET_AMD64 == target = "amd64"

\* the registers of a CONTEXT the transition deals with
Context(sp, fp, ip) == [SP |-> sp, FP |-> fp, IP |-> ip]
NoContext == Context(0, 0, NULL)

\* a frame of the method with the patchpoint: its SP and FP at the call of the
\* helper, the return address of that call, and what the unwind of the frame
\* yields for its caller.  The stack pointers are 16-byte aligned.
Frame(sp, fp, callerSP, callerFP) ==
    [SP |-> sp, FP |-> fp, IP |-> "ip", callerSP |-> callerSP, callerFP |-> callerFP,
     callerIP |-> "callerIp"]

\* Thread::VirtualUnwindToFirstManagedCallFrame from the helper
VirtualUnwindToFirstManagedCallFrame(f) == Context(f.SP, f.FP, f.IP)
\* RtlVirtualUnwind of the method's frame
RtlVirtualUnwind(f) == Context(f.callerSP, f.callerFP, f.callerIP)

\* the CONTEXT handed to ClrRestoreNonvolatileContext for a method frame f
\* and the entry point code of the OSR method
TransitionContext_mut(f, code) ==
    LET currentSP == VirtualUnwindToFirstManagedCallFrame(f).SP
    IN  [RtlVirtualUnwind(f) EXCEPT !.SP = currentSP, !.IP = code]
TransitionContext(f, code) ==
    LET currentSP == VirtualUnwindToFirstManagedCallFrame(f).SP
        currentFP == VirtualUnwindToFirstManagedCallFrame(f).FP
        unwound == RtlVirtualUnwind(f)
    IN  IF TARGET_AMD64
        THEN [unwound EXCEPT !.FP = currentFP, !.SP = currentSP - 8, !.IP = code]
        ELSE [unwound EXCEPT !.SP = currentSP, !.IP = code]

\* helper: from "if we get here, we have code to transition to" to
\* ClrRestoreNonvolatileContext(pFrameContext)
HelperTransition_mut(t) ==
    /\ ~fatal
    /\ opc[t] = "ret_code"
    /\ obtained' = [obtained EXCEPT ![t] = osrMethodCode[t]]
    /\ frameContext' = [frameContext EXCEPT
                           ![t] = TransitionContext(methodFrame[t], osrMethodCode[t])]
    /\ Goto(t, "idle")
    /\ UNCHANGED <<fatal, policy>>
    /\ OsrFlagLocalsUnchanged /\ OsrSharedUnchanged /\ OsrGhostUnchanged
    /\ OsrHitUnchanged
HelperTransition(t) ==
    /\ ~fatal
    /\ opc[t] = "ret_code"
    /\ IF VirtualUnwindToFirstManagedCallFrame(methodFrame[t]).IP # "ip"
       THEN /\ fatal' = TRUE
            /\ Goto(t, "fatal")
            /\ UNCHANGED <<obtained, frameContext>>
       ELSE /\ obtained' = [obtained EXCEPT ![t] = osrMethodCode[t]]
            /\ frameContext' = [frameContext EXCEPT
                                   ![t] = TransitionContext(methodFrame[t], osrMethodCode[t])]
            /\ Goto(t, "osr")
            /\ UNCHANGED fatal
    /\ UNCHANGED policy
    /\ OsrFlagLocalsUnchanged /\ OsrSharedUnchanged /\ OsrGhostUnchanged
    /\ OsrHitUnchanged

ThreadStep(t) ==
    \/ HelperEnter(t)
    \/ OptReadCode(t)
    \/ OptCheckInvalid(t)
    \/ OptCount(t)
    \/ OptReadFlags(t)
    \/ OptCas(t)
    \/ OptRereadCode(t)
    \/ OptJit(t)
    \/ OptPublish(t)
    \/ ReqEntry(t)
    \/ ReqLoopTest(t)
    \/ ReqCheckInvalid(t)
    \/ ReqReadFlags(t)
    \/ ReqNewFlags(t)
    \/ ReqCas(t)
    \/ ReqJit(t)
    \/ ReqPublish(t)
    \/ ReqExit(t)
    \/ HelperReturn(t)
    \/ HelperTransition(t)

\* the builds with OSR: amd64, where a call pushes its return address, and arm64
OsrTargets == {"amd64", "arm64"}

\* the layouts of the method's frame: how far its frame pointer is above its
\* SP, and its caller's above the caller's SP
FrameLayouts == {<<32, 0>>, <<0, 48>>}

\* each thread runs the method on a stack of its own
ThreadFramesOf(l) ==
    [t \in Threads |-> Frame(1024 * t, 1024 * t + l[1], 1024 * t + 64, 1024 * t + 64 + l[2])]
ThreadFrames == {ThreadFramesOf(l) : l \in FrameLayouts}

\* the CorHost2 objects of the process
Hosts == {"A", "B"}

\* no host has called Start, no thread is inside Start or Stop
ParkedHost ==
    /\ g_fEEStarted = FALSE
    /\ m_RefCount = 0
    /\ lockOnlyOneToInvokeStart = 0
    /\ m_fStarted = [h \in Hosts |-> FALSE]
    /\ m_fFirstToLoadCLR = [h \in Hosts |-> FALSE]
    /\ hostPc = [t \in Threads |-> "idle"]
    /\ pHost = [t \in Threads |-> NULL]
    /\ hr = [t \in Threads |-> "none"]
    /\ refCount = [t \in Threads |-> 0]
    /\ hostCalls = [t \in Threads |-> 0]
    /\ callDelta = [t \in Threads |-> 0]
    /\ started = [h \in Hosts |-> 0]
    /\ stopped = [h \in Hosts |-> 0]

\* PerfJitDumpState(): nothing is being dumped
ParkedDump ==
    /\ enabled = FALSE
    /\ fd = FALSE
    /\ codeIndex = 0
    /\ dumpFile = <<>>
    /\ dumpPc = [t \in Threads |-> "idle"]
    /\ code_index = [t \in Threads |-> 0]
    /\ dumpCalls = [t \in Threads |-> 0]

ParkedLibs == ParkedHost /\ ParkedDump

\* no stack is being walked
ParkedWalk ==
    /\ stk = <<>> /\ exInfo = <<>> /\ badCookies = {}
    /\ unwindFault = <<>> /\ funcletParent = <<>>
    /\ caller = <<>> /\ flags = {} /\ iter = <<>> /\ wpc = "none" /\ retVal = "none" /\ swa = "none"
    /\ trace = <<>> /\ log = <<>> /\ start = <<>> /\ prev = <<>>
    /\ t_pStackWalkerWalkingThread = NULL /\ pStackWalkThreadOrig = NULL

InitHelper ==
    /\ m_flags = [p \in Patchpoints |-> {}]
    /\ m_patchpointCount = [p \in Patchpoints |-> 0]
    /\ m_osrMethodCode = [p \in Patchpoints |-> NULL]
    /\ opc = [t \in Threads |-> "idle"]
    /\ ppInfo = [t \in Threads |-> NULL]
    /\ counter = [t \in Threads |-> OSR_CounterBump]
    /\ policy \in [Threads -> {"opt", "req"}]
    /\ oldFlags = [t \in Threads |-> {}]
    /\ newFlags = [t \in Threads |-> {}]
    /\ osrMethodCode = [t \in Threads |-> NULL]
    /\ hitCount = [t \in Threads |-> 0]
    /\ obtained = [t \in Threads |-> NULL]
    /\ frameContext = [t \in Threads |-> NoContext]
    /\ fatal = FALSE
    /\ jitCalls = <<>>
    /\ casWins = <<>>
    /\ ParkedWalk
    /\ ParkedLibs

InitOSR ==
    /\ InitHelper
    /\ reached = [t \in Threads |-> {"P"}]
    /\ target = "amd64"
    /\ methodFrame = ThreadFramesOf(<<32, 0>>)

\* two threads reach both patchpoints of the method, the others one of them;
\* the first thread runs the method with partial compilation patchpoints, the
\* others count hits
InitMethod ==
    /\ InitHelper
    /\ policy = [t \in Threads |-> IF t = 1 THEN "req" ELSE "opt"]
    /\ reached = [t \in Threads |-> IF t <= 2 THEN Patchpoints ELSE {"P"}]
    /\ target = "amd64"
    /\ methodFrame = ThreadFramesOf(<<32, 0>>)

NextOSR == \E t \in Threads : ThreadStep(t)

SpecOSR == InitOSR /\ [][NextOSR]_vars

SpecMethod == InitMethod /\ [][NextOSR]_vars

\* every thread is an OS thread that keeps running; JitPatchpointWorker terminates
SpecOSRFair == InitOSR /\ [][NextOSR]_vars /\ \A t \in Threads : WF_vars(ThreadStep(t))

(***************************************************************************)
(* Claims about the OSR policies                                           *)
(***************************************************************************)
\* C1: for one patchpoint record and any interleaving of threads under either
\* policy, at most one InterlockedCompareExchange that sets patchpoint_triggered
\* ever succeeds, and JitPatchpointWorker is invoked at most once.
C1_AtMostOneTrigger == Len(casWins) <= 1 /\ Len(jitCalls) <= 1

\* a thread other than the winner read the flags before the trigger, attempted
\* the compare-exchange and lost it
C1_Witness_LostRace ==
    /\ Len(casWins) = 1
    /\ \E t \in Threads :
          /\ t # casWins[1]
          /\ policy[t] = "req"
          /\ opc[t] = "R_loop"
          /\ oldFlags[t] = {}
          /\ newFlags[t] = {patchpoint_triggered}

\* C2: when the compilation succeeds exactly one compilation was performed, and
\* every thread that keeps hitting the patchpoint eventually transitions to that
\* same non-null OSR code address.
C2_AllObtainSameCode ==
    /\ [](m_osrMethodCode["P"] # NULL => Len(jitCalls) = 1 /\ jitCalls[1][2] = m_osrMethodCode["P"])
    /\ ((m_osrMethodCode["P"] # NULL) ~> (\A t \in Threads : obtained[t] = m_osrMethodCode["P"]))

\* the hit count reached the limit, an optimizing-policy thread compiled, and
\* every thread (the compiling one and the others) has entered the same code
C2_Witness_AllTransitioned ==
    /\ m_osrMethodCode["P"] # NULL
    /\ m_patchpointCount["P"] = HitLimit
    /\ Len(jitCalls) = 1
    /\ policy[jitCalls[1][1]] = "opt"
    /\ \A t \in Threads : opc[t] = "osr" /\ obtained[t] = m_osrMethodCode["P"]

\* ---- the transition into the OSR method ----
InitTransition ==
    /\ InitHelper
    /\ reached = [t \in Threads |-> {"P"}]
    /\ target \in OsrTargets
    /\ methodFrame \in ThreadFrames

SpecTransition == InitTransition /\ [][NextOSR]_vars

Steps(t) == opc'[t] # opc[t]

\* the positions of PatchpointRequiredPolicy, and those inside its loop
ReqLabels == {"R_entry", "R_loop", "R_checkInvalid", "R_readFlags", "R_newFlags", "R_cas",
              "R_jit", "R_publish", "R_exit"}
ReqWaiting == {"R_loop", "R_checkInvalid", "R_readFlags", "R_newFlags", "R_cas"}

\* C16: PatchpointRequiredPolicy returns only with a non-null address of OSR
\* code, that of its patchpoint; when it finds patchpoint_invalid set, at its
\* entry or in its loop, or when its own compilation fails, the process is
\* terminated (EEPOLICY_HANDLE_FATAL_ERROR) and the policy does not return.
C16_RequiredReturnsCodeOrDies ==
    [][\A t \in Threads :
          policy[t] = "req" =>
              /\ opc'[t] # "ret_null"
              /\ (opc[t] \in ReqLabels /\ opc'[t] \notin ReqLabels) =>
                     \/ /\ opc'[t] = "ret_code"
                        /\ osrMethodCode'[t] # NULL
                        /\ osrMethodCode'[t] = m_osrMethodCode'[ppInfo'[t]]
                     \/ opc'[t] = "fatal" /\ fatal'
              /\ (/\ opc[t] \in {"R_entry", "R_checkInvalid"}
                  /\ HasFlag(m_flags[ppInfo[t]], patchpoint_invalid)
                  /\ Steps(t)) => opc'[t] = "fatal" /\ fatal'
              /\ (opc[t] = "R_publish" /\ osrMethodCode[t] = NULL /\ Steps(t)) =>
                     opc'[t] = "fatal" /\ fatal'
      ]_vars

\* a thread under the required policy saw the patchpoint triggered by another
\* thread, waited, and returned the code that thread compiled
C16_Witness_WaitedThenReturned ==
    \E t \in Threads :
        /\ policy[t] = "req" /\ opc[t] = "ret_code"
        /\ HasFlag(oldFlags[t], patchpoint_triggered)
        /\ Len(jitCalls) = 1 /\ jitCalls[1][1] # t
        /\ osrMethodCode[t] = jitCalls[1][2] /\ osrMethodCode[t] # NULL

\* C17: with every thread scheduled fairly and every compilation returning, a
\* thread in the loop of the required policy eventually returns the address of
\* the OSR code or the process is terminated; whichever policy the thread that
\* set patchpoint_triggered runs.
C17_RequiredWaitEnds ==
    \A t \in Threads :
        (policy[t] = "req" /\ opc[t] \in ReqWaiting)
            ~> (opc[t] \in {"ret_code", "osr"} \/ fatal)

\* a thread under the required policy waits in its loop for a compilation that
\* a thread under the optimizing policy triggered and is performing
C17_Witness_WaitingForOptimizer ==
    \E t, u \in Threads :
        /\ policy[t] = "req" /\ opc[t] \in ReqWaiting
        /\ HasFlag(oldFlags[t], patchpoint_triggered)
        /\ policy[u] = "opt" /\ casWins = <<u>> /\ opc[u] = "O_jit"

\* C18: no step of either policy clears a bit of m_flags: once
\* patchpoint_triggered or patchpoint_invalid is set in a patchpoint's record
\* it stays set.
C18_FlagsMonotonic ==
    [][\A p \in Patchpoints : m_flags[p] \subseteq m_flags'[p]]_vars

\* both bits are set, and a thread that had computed its new flags before
\* either was set lost its compare-exchange and returned
C18_Witness_LoserWroteNothing ==
    /\ m_flags["P"] = {patchpoint_triggered, patchpoint_invalid}
    /\ \E t \in Threads :
          /\ casWins # <<>> /\ t # casWins[1]
          /\ policy[t] = "opt" /\ opc[t] = "ret_null"
          /\ oldFlags[t] = {} /\ newFlags[t] = {patchpoint_triggered}

\* the positions of a thread that won the compare-exchange and has not yet
\* published what its compilation gave
CompilingLabels == {"O_rereadCode", "O_jit", "O_publish", "R_jit", "R_publish"}

\* C20: under the optimizing policy a hit that reads patchpoint_triggered as
\* set, or whose compare-exchange fails, returns NULL at once, changing
\* nothing; while a thread compiles for a patchpoint no other thread under the
\* optimizing policy compiles for it, waits or gets code at it.
C20_OptimizerNeverWaits ==
    [][\A t \in Threads :
          policy[t] = "opt" =>
              /\ (/\ opc[t] = "O_readFlags"
                  /\ HasFlag(m_flags[ppInfo[t]], patchpoint_triggered)
                  /\ Steps(t)) =>
                     /\ opc'[t] = "ret_null"
                     /\ UNCHANGED <<m_flags, m_patchpointCount, m_osrMethodCode, jitCalls>>
              /\ (opc[t] = "O_cas" /\ m_flags[ppInfo[t]] # oldFlags[t] /\ Steps(t)) =>
                     /\ opc'[t] = "ret_null"
                     /\ UNCHANGED <<m_flags, m_patchpointCount, m_osrMethodCode, jitCalls>>
              /\ (opc[t] = "ret_null" /\ Steps(t)) => opc'[t] = "idle" /\ obtained'[t] = NULL
              /\ \A u \in Threads \ {t} :
                     (/\ opc'[t] # "idle" /\ opc'[u] \in CompilingLabels
                      /\ ppInfo'[u] = ppInfo'[t]) =>
                         opc'[t] \in {"O_readCode", "O_checkInvalid", "O_count",
                                      "O_readFlags", "O_cas", "ret_null"}
      ]_vars

\* while another thread compiles, a thread under the optimizing policy has
\* read patchpoint_triggered as set and returned without code
C20_Witness_ReturnedWhileCompiling ==
    \E t, u \in Threads :
        /\ t # u /\ policy[t] = "opt" /\ opc[t] = "ret_null"
        /\ HasFlag(oldFlags[t], patchpoint_triggered)
        /\ opc[u] \in {"O_jit", "R_jit"} /\ casWins = <<u>>
        /\ m_osrMethodCode["P"] = NULL

\* the record of patchpoint p is left as it is
RecordUnchanged(p) ==
    /\ m_flags'[p] = m_flags[p]
    /\ m_patchpointCount'[p] = m_patchpointCount[p]
    /\ m_osrMethodCode'[p] = m_osrMethodCode[p]

\* C19: once patchpoint_invalid is set in a patchpoint's record, a hit at it
\* under the optimizing policy returns NULL, to the method it came from,
\* without a compilation and with the record's hit count and flags as they
\* were, and a hit at it under the required policy terminates the process; a
\* hit changes the record of no other patchpoint, and under the optimizing
\* policy it leaves the method's counter at the bump value whatever it finds.
C19_InvalidPatchpointStaysOut ==
    [][\A t \in Threads :
          Steps(t) =>
              /\ (/\ policy[t] = "opt" /\ opc[t] \in {"O_readCode", "O_checkInvalid"}
                  /\ HasFlag(m_flags[ppInfo[t]], patchpoint_invalid)) =>
                     /\ opc'[t] \in {"O_checkInvalid", "ret_null"}
                     /\ opc[t] = "O_checkInvalid" => opc'[t] = "ret_null"
                     /\ RecordUnchanged(ppInfo[t])
                     /\ jitCalls' = jitCalls /\ ~fatal'
              /\ (opc[t] = "ret_null" /\ policy[t] = "opt") =>
                     /\ opc'[t] = "idle" /\ obtained'[t] = NULL
                     /\ counter'[t] = OSR_CounterBump
              /\ (/\ policy[t] = "req" /\ opc[t] = "R_entry"
                  /\ HasFlag(m_flags[ppInfo[t]], patchpoint_invalid)) =>
                     opc'[t] = "fatal" /\ fatal'
              /\ \A q \in Patchpoints \ {ppInfo'[t]} : RecordUnchanged(q)
      ]_vars

\* the compilation for P failed; the thread that made it went on to hit Q,
\* which counted the hit, and then P again, which returned NULL and left the
\* record of P as it was
C19_Witness_HitAgainAfterInvalid ==
    \E t \in Threads :
        /\ ~fatal /\ policy[t] = "opt"
        /\ m_flags["P"] = {patchpoint_triggered, patchpoint_invalid}
        /\ jitCalls = <<<<t, NULL>>>>
        /\ m_patchpointCount["P"] = HitLimit
        /\ m_patchpointCount["Q"] = 1 /\ hitCount[t] = 1
        /\ m_flags["Q"] = {}
        /\ opc[t] = "ret_null" /\ ppInfo[t] = "P"
        /\ counter[t] = OSR_CounterBump

\* C21: under the optimizing policy a hit whose incremented count is below
\* the hit limit returns NULL and leaves the flags and the code pointer of the
\* record as they were; JitPatchpointWorker is called only in a hit whose
\* incremented count has reached the limit.
C21_CompilationOnlyAtHitLimit ==
    [][\A t \in Threads :
          (policy[t] = "opt" /\ Steps(t)) =>
              /\ opc[t] = "O_count" =>
                     /\ hitCount'[t] = m_patchpointCount'[ppInfo[t]]
                     /\ \/ hitCount'[t] = m_patchpointCount[ppInfo[t]] + 1
                        \/ hitCount'[t] = HitLimit
                     /\ hitCount'[t] < HitLimit =>
                            /\ opc'[t] = "ret_null"
                            /\ UNCHANGED <<m_flags, m_osrMethodCode, jitCalls>>
              /\ opc'[t] \in {"O_readFlags", "O_cas", "O_rereadCode", "O_jit", "O_publish"} =>
                     hitCount'[t] >= HitLimit
              /\ jitCalls' # jitCalls => hitCount[t] >= HitLimit
      ]_vars

\* a hit below the limit was counted and has returned NULL: nothing is
\* triggered and there is no code
C21_Witness_DeferredBelowLimit ==
    \E t \in Threads :
        /\ policy[t] = "opt" /\ opc[t] = "ret_null"
        /\ hitCount[t] = 1 /\ m_patchpointCount["P"] = 1 /\ 1 < HitLimit
        /\ m_flags["P"] = {} /\ m_osrMethodCode["P"] = NULL /\ jitCalls = <<>>

\* C22: the code pointer of a patchpoint record is written only by the thread
\* whose compare-exchange set patchpoint_triggered, only with the non-null
\* result of the compilation that thread has completed, and only while it is
\* NULL; a non-null pointer is the result of a completed compilation.
C22_CodePointerWrittenOnce ==
    [][\A p \in Patchpoints :
          /\ m_osrMethodCode'[p] # m_osrMethodCode[p] =>
                 /\ m_osrMethodCode[p] = NULL /\ m_osrMethodCode'[p] # NULL
                 /\ \E t \in Threads :
                        /\ Steps(t) /\ ppInfo[t] = p
                        /\ casWins = <<t>>
                        /\ jitCalls # <<>>
                        /\ jitCalls[Len(jitCalls)] = <<t, m_osrMethodCode'[p]>>
          /\ m_osrMethodCode'[p] # NULL =>
                 \E i \in 1..Len(jitCalls') : jitCalls'[i][2] = m_osrMethodCode'[p]
      ]_vars

\* the thread that won the compare-exchange published the code it compiled,
\* and a thread that lost it has read that code
C22_Witness_LoserReadsPublishedCode ==
    \E t, u \in Threads :
        /\ casWins = <<t>> /\ jitCalls = <<<<t, m_osrMethodCode["P"]>>>>
        /\ m_osrMethodCode["P"] # NULL
        /\ u # t /\ opc[u] = "ret_code" /\ osrMethodCode[u] = m_osrMethodCode["P"]

\* C23: the helper returns to the original method exactly when the policy
\* gave NULL; when the policy gave code the helper restores the context with
\* that code as IP and does not return; under the required policy the helper
\* never returns to the original method.
C23_ReturnsIffNoCode ==
    [][\A t \in Threads :
          Steps(t) =>
              /\ opc'[t] = "idle" <=> opc[t] = "ret_null"
              /\ opc'[t] = "ret_null" => osrMethodCode'[t] = NULL /\ policy[t] = "opt"
              /\ opc[t] = "ret_null" =>
                     /\ obtained'[t] = NULL /\ frameContext'[t] = NoContext
              /\ opc'[t] = "ret_code" => osrMethodCode'[t] # NULL
              /\ opc[t] = "ret_code" =>
                     /\ opc'[t] = "osr"
                     /\ obtained'[t] = osrMethodCode[t]
                     /\ frameContext'[t].IP = osrMethodCode[t]
              /\ opc[t] \notin {"osr", "fatal"}
              /\ policy[t] = "req" => opc'[t] # "idle"
      ]_vars

\* a thread under the required policy has entered the OSR code, and a thread
\* under the optimizing policy, whose hit gave no code, is back in the method
C23_Witness_OneEnteredOneReturned ==
    \E t, u \in Threads :
        /\ policy[t] = "req" /\ opc[t] = "osr" /\ obtained[t] # NULL
        /\ policy[u] = "opt" /\ opc[u] = "idle" /\ ppInfo[u] = "P"
        /\ obtained[u] = NULL /\ frameContext[u] = NoContext

(***************************************************************************)
(* Part II: the stack walker (vm/stackwalk.cpp)                            *)
(***************************************************************************)
\* the value of B at v: names the result of a step of the code
With(v, B(_)) == B(v)

\* StackWalkAction
SWA_CONTINUE == "SWA_CONTINUE"
SWA_ABORT == "SWA_ABORT"
SWA_FAILED == "SWA_FAILED"
\* "SWA_CONTINUE (== SWA_DONE)"
SWA_DONE == SWA_CONTINUE

\* StackFrameIterator::FrameState
SFITER_UNINITIALIZED == "SFITER_UNINITIALIZED"
SFITER_FRAMELESS_METHOD == "SFITER_FRAMELESS_METHOD"
SFITER_FRAME_FUNCTION == "SFITER_FRAME_FUNCTION"
SFITER_SKIPPED_FRAME_FUNCTION == "SFITER_SKIPPED_FRAME_FUNCTION"
SFITER_NO_FRAME_TRANSITION == "SFITER_NO_FRAME_TRANSITION"
SFITER_NATIVE_MARKER_FRAME == "SFITER_NATIVE_MARKER_FRAME"
SFITER_INITIAL_NATIVE_CONTEXT == "SFITER_INITIAL_NATIVE_CONTEXT"
SFITER_DONE == "SFITER_DONE"

\* stackwalk flags
HANDLESKIPPEDFRAMES == "HANDLESKIPPEDFRAMES"
FUNCTIONSONLY == "FUNCTIONSONLY"
SKIPFUNCLETS == "SKIPFUNCLETS"
POPFRAMES == "POPFRAMES"
NOTIFY_ON_U2M_TRANSITIONS == "NOTIFY_ON_U2M_TRANSITIONS"
NOTIFY_ON_INITIAL_NATIVE_CONTEXT == "NOTIFY_ON_INITIAL_NATIVE_CONTEXT"
NOTIFY_ON_NO_FRAME_TRANSITIONS == "NOTIFY_ON_NO_FRAME_TRANSITIONS"
GC_FUNCLET_REFERENCE_REPORTING == "GC_FUNCLET_REFERENCE_REPORTING"
PROFILER_DO_STACK_SNAPSHOT == "PROFILER_DO_STACK_SNAPSHOT"
SKIP_GSCOOKIE_CHECK == "SKIP_GSCOOKIE_CHECK"

\* ---- build targets ----
\* "x86" is TARGET_X86 without FEATURE_EH_FUNCLETS; "amd64" stands for every
\* other target (FEATURE_EH_FUNCLETS, explicit frames before their managed frame)
\* "x86dac" is the "x86" target compiled for the debugger's data access
\* (DACCESS_COMPILE): the walker reads another process
Targets == {"amd64", "x86"}
TARGET_X86 == target \in {"x86", "x86dac"}
DACCESS_COMPILE == target = "x86dac"
PROCESS_EXPLICIT_FRAME_BEFORE_MANAGED_FRAME == ~TARGET_X86
FEATURE_EH_FUNCLETS == ~TARGET_X86
STACKWALKER_MAY_POP_FRAMES == ~DACCESS_COMPILE /\ TARGET_X86 /\ ~FEATURE_EH_FUNCLETS
ELIMINATE_FEF == TARGET_X86

\* ---- the walked stack ----
\* Items, leaf first.  k = "M": the frame of a managed method, its index is
\* its SP; k = "N": a run of native code; k = "F": an explicit Frame that
\* lives in the region (managed frame or native run) before it.
\*   M: t is the kind of code ("method", "ilstub", "funclet", "filter"),
\*      gs says whether the method has a GS cookie
\*   F: t is the kind of Frame:
\*      "ICF_active"    InlinedCallFrame with an active call
\*      "ICF_inactive"  InlinedCallFrame without one (return address NULL)
\*      "ToManaged"     a Frame whose return address is in managed code
\*      "Native"        a Frame whose return address is not in managed code
MItem(t, gs) == [k |-> "M", t |-> t, gs |-> gs]
NItem == [k |-> "N", t |-> "native", gs |-> FALSE]
FItem(t) == [k |-> "F", t |-> t, gs |-> FALSE]

\* FRAME_TOP is (Frame*)-1: above every address
FRAME_TOP == MaxDepth + 10

IsRegion(s, a) == a \in 1..Len(s) /\ s[a].k \in {"M", "N"}
IsManaged(s, a) == a \in 1..Len(s) /\ s[a].k = "M"
IsFrame(s, a) == a \in 1..Len(s) /\ s[a].k = "F"

MaxOf(S) == CHOOSE x \in S : \A y \in S : y <= x
MinOf(S) == CHOOSE x \in S : \A y \in S : x <= y

\* the region an address lies in, and the region above it (the stack base,
\* Len(s) + 1, when there is none)
RegionOf(s, a) == MaxOf({i \in 1..a : IsRegion(s, i)})
NextRegion(s, a) == MinOf({i \in (a+1)..Len(s) : IsRegion(s, i)} \cup {Len(s) + 1})

\* Frame::Next(): the next Frame of the chain towards the root
NextFrame(s, a) == MinOf({i \in (a+1)..Len(s) : IsFrame(s, i)} \cup {FRAME_TOP})

\* ---- well-formed stacks ----
\* what the thread can have pushed: an InlinedCallFrame is a local of a managed
\* frame (one per method); the Frames of native code lie in that native run; a
\* Frame that returns to managed code is the last one of its run and the
\* managed frame it returns to follows it; an inlined call is active only in
\* the leaf or below native code.
CanFollow(s, i) ==
    IF s = <<>>
    THEN i.k \in {"M", "N"}
    ELSE LET last == s[Len(s)]
             r == RegionOf(s, Len(s))
         IN  CASE i.k = "N" -> s[r].k = "M" /\ last.t # "ToManaged"
               [] i.k = "M" -> TRUE
               [] i.k = "F" ->
                    IF s[r].k = "M"
                    THEN /\ last.k = "M"
                         /\ i.t \in {"ICF_active", "ICF_inactive"}
                         /\ i.t = "ICF_active" => (r = 1 \/ s[RegionOf(s, r - 1)].k = "N")
                    ELSE /\ i.t \in {"ToManaged", "Native"}
                         /\ last.t # "ToManaged"

\* the managed frame at m is entered from native code that left a way back to
\* it: a Frame returning to it, or its own active InlinedCallFrame
LinkedFromNative(s, m) ==
    \/ s[m - 1].t = "ToManaged"
    \/ m + 1 <= Len(s) /\ s[m + 1].t = "ICF_active"

\* managed frames below native code that no Frame leads to: the walker finds
\* them only through the CONTEXT of an ExInfo (a fault in managed code)
Unlinked(s) ==
    {m \in 2..Len(s) : IsManaged(s, m) /\ s[RegionOf(s, m - 1)].k = "N"
                       /\ ~LinkedFromNative(s, m)}

RECURSIVE StacksOfLen(_, _)
StacksOfLen(items, n) ==
    IF n = 0 THEN {<<>>}
    ELSE {Append(s, i) : <<s, i>> \in
             {p \in StacksOfLen(items, n - 1) \X items : CanFollow(p[1], p[2])}}

Stacks(items) ==
    {s \in UNION {StacksOfLen(items, n) : n \in 1..MaxDepth} : s[Len(s)].t # "ToManaged"}

\* ---- the thread's exception state ----
\* exInfo is the chain of ExInfo records, newest first.  On x86 a record may
\* hold the CONTEXT of a fault in managed code: ctx is the SP of that CONTEXT
\* (0: no CONTEXT), ebp says whether the register display of the native code
\* above it shows the frame pointer of the CONTEXT with a PC on the stack.
ExInfoRec(ctx, ebp) == [ctx |-> ctx, ebp |-> ebp]

\* StackFrame(): the null stack frame; NULL pointers and the NULL PC are 0 too
NullAddr == 0
\* ICodeManager/EECodeInfo: an IP is the address of the managed frame whose
\* code it lies in, or 0 when it is not in managed code
IsManagedCode(ip) == ip # NullAddr
\* GetIP(pContext) of a CONTEXT whose SP is sp
ContextIP(sp) == IF IsManaged(stk, sp) THEN sp ELSE NullAddr

\* ---- StackFrameIterator ----
\* StackFrameIterator::StackFrameIterator() -> CommonCtor(NULL, NULL, 0xbaadf00d)
CommonCtor ==
    [ m_frameState |-> SFITER_UNINITIALIZED,
      m_flags |-> {},
      m_pStartFrame |-> NullAddr,
      m_pCachedGSCookie |-> NullAddr,
      m_cachedCodeInfo |-> NullAddr,
      \* m_crawl
      isFrameless |-> FALSE,
      pFrame |-> NullAddr,
      pFunc |-> NullAddr,
      codeInfo |-> NullAddr,
      isFirst |-> FALSE,
      isInterrupted |-> FALSE,
      hasFaulted |-> FALSE,
      isIPadjusted |-> FALSE,
      isNativeMarker |-> FALSE,
      isNoFrameTransition |-> FALSE,
      taNoFrameTransitionMarker |-> NullAddr,
      pCurGSCookie |-> NullAddr,
      pFirstGSCookie |-> NullAddr,
      fShouldParentToFuncletSkipReportingGCReferences |-> FALSE,
      fShouldCrawlframeReportGCReferences |-> FALSE,
      fShouldParentFrameUseUnwindTargetPCforGCReporting |-> FALSE,
      fShouldSaveFuncletInfo |-> FALSE,
      fShouldParentToFuncletReportSavedFuncletSlots |-> FALSE,
      \* m_crawl.pRD
      SP |-> NullAddr,
      ControlPC |-> NullAddr,
      \* funclet tracking (FEATURE_EH_FUNCLETS)
      m_sfParent |-> NullAddr,
      m_sfFuncletParent |-> NullAddr,
      m_sfIntermediaryFuncletParent |-> NullAddr,
      m_fProcessNonFilterFunclet |-> FALSE,
      m_fProcessIntermediaryNonFilterFunclet |-> FALSE,
      m_fDidFuncletReportGCReferences |-> TRUE,
      m_forceReportingWhileSkipping |-> "Off",
      m_movedPastFirstExInfo |-> FALSE,
      m_fFuncletNotSeen |-> FALSE,
      m_fFoundFirstFunclet |-> FALSE,
      \* m_exInfoWalk.m_pExInfo (ELIMINATE_FEF): index into exInfo, 0 is NULL
      m_pExInfo |-> NullAddr,
      \* what the walk writes outside the iterator
      threadFrame |-> FRAME_TOP,      \* Thread::m_pFrame
      exUse |-> {},                   \* ExInfos with UseExInfoForStackwalk set
      exceptionUnwinds |-> <<>>,      \* Frames whose ExceptionUnwind() ran
      failFast |-> FALSE,             \* DoJITFailFast() was called
      monitorsLeft |-> <<>>,          \* frames whose monitor LeaveObjMonitorAtException() left
      asserted |-> FALSE,             \* an _ASSERTE of the walker fired (checked build)
      unwindFaulted |-> FALSE ]       \* the unwind that goes wrong has happened

\* CrawlFrame::GotoNextFrame
GotoNextFrame(it) == [it EXCEPT !.pFrame = NextFrame(stk, it.pFrame)]

\* ASSERT / _ASSERTE with a condition that is false: the process stops there
AssertFails(it) == [it EXCEPT !.asserted = TRUE]

\* CrawlFrame::CheckGSCookies
CheckGSCookies_mut(it) == it
CheckGSCookies(it) ==
    IF DACCESS_COMPILE \/ it.pFirstGSCookie = NullAddr
    THEN it
    ELSE IF it.pFirstGSCookie \in badCookies \/ it.pCurGSCookie \in badCookies
         THEN [it EXCEPT !.failFast = TRUE]
         ELSE it

\* CrawlFrame::SetCurGSCookie
SetCurGSCookie(it, pGSCookie) ==
    IF DACCESS_COMPILE
    THEN it
    ELSE IF pGSCookie = NullAddr
    THEN [it EXCEPT !.failFast = TRUE]
    ELSE CheckGSCookies([it EXCEPT !.pCurGSCookie = pGSCookie,
                                   !.pFirstGSCookie = IF @ = NullAddr THEN pGSCookie ELSE @])

\* StackFrameIterator::ResetCrawlFrame
ResetCrawlFrame(it) ==
    [it EXCEPT !.isFirst = TRUE, !.isInterrupted = FALSE, !.hasFaulted = FALSE,
               !.isIPadjusted = FALSE, !.isNativeMarker = FALSE,
               !.isNoFrameTransition = FALSE, !.taNoFrameTransitionMarker = NullAddr,
               !.fShouldParentToFuncletSkipReportingGCReferences = FALSE,
               !.fShouldParentFrameUseUnwindTargetPCforGCReporting = FALSE,
               !.fShouldSaveFuncletInfo = FALSE,
               !.fShouldParentToFuncletReportSavedFuncletSlots = FALSE,
               !.pCurGSCookie = NullAddr, !.pFirstGSCookie = NullAddr]

\* ---- ExInfoWalker (ELIMINATE_FEF) ----
PrevNestedInfo(p) == IF p < Len(exInfo) THEN p + 1 ELSE NullAddr
\* ExInfoWalker::GetSPFromContext / GetContext
GetSPFromContext(it) == IF it.m_pExInfo = NullAddr THEN NullAddr ELSE exInfo[it.m_pExInfo].ctx
GetContext(it) == GetSPFromContext(it)

\* ExInfoWalker::WalkOne
WalkOne(it) ==
    IF it.m_pExInfo # NullAddr THEN [it EXCEPT !.m_pExInfo = PrevNestedInfo(@)] ELSE it

\* ExInfoWalker::WalkToPosition
RECURSIVE WalkToPosition(_, _, _)
WalkToPosition(it, taMinimum, bPopFrames) ==
    IF it.m_pExInfo # NullAddr
       /\ (GetSPFromContext(it) < taMinimum \/ GetSPFromContext(it) = NullAddr)
    THEN WalkToPosition([it EXCEPT !.exUse = IF bPopFrames THEN @ \ {it.m_pExInfo} ELSE @,
                                   !.m_pExInfo = PrevNestedInfo(@)],
                        taMinimum, bPopFrames)
    ELSE it

\* ExInfoWalker::WalkToManaged
RECURSIVE WalkToManaged(_)
WalkToManaged(it) ==
    IF it.m_pExInfo = NullAddr
    THEN it
    ELSE IF /\ it.m_pExInfo \in it.exUse
            /\ GetContext(it) # NullAddr
            /\ IsManagedCode(ContextIP(GetContext(it)))
         THEN it
         ELSE WalkToManaged([it EXCEPT !.m_pExInfo = PrevNestedInfo(@)])

\* StackFrameIterator::IsValid: the iterator after the call (on ELIMINATE_FEF
\* builds the test advances m_exInfoWalk), and the value returned
IsValidIter(it) ==
    IF ~it.isFrameless /\ it.pFrame = FRAME_TOP
       /\ it.m_frameState # SFITER_NATIVE_MARKER_FRAME /\ ELIMINATE_FEF
    THEN WalkToManaged(it)
    ELSE it

IsValid(it) ==
    IF ~it.isFrameless /\ it.pFrame = FRAME_TOP
    THEN IF it.m_frameState = SFITER_NATIVE_MARKER_FRAME
         THEN TRUE
         ELSE ELIMINATE_FEF /\ GetContext(WalkToManaged(it)) # NullAddr
    ELSE TRUE

\* ---- Frames and the code manager, as the walker calls them ----
\* Frame::GetReturnAddress() != NULL, and the managed IP it holds (0: native)
HasReturnAddress(a) == stk[a].t # "ICF_inactive"
ReturnAddress(a) ==
    CASE stk[a].t = "ICF_active" -> RegionOf(stk, a)
      [] stk[a].t = "ToManaged" -> a + 1
      [] OTHER -> NullAddr
\* InlinedCallFrame::FrameHasActiveCall
FrameHasActiveCall(a) == stk[a].t = "ICF_active"
\* Frame::GetFunction(): native Frames have no MethodDesc
GetFunction(a) == IF stk[a].t = "Native" THEN NullAddr ELSE a
\* MethodDesc::IsILStub
IsILStub(pFunc) == IsManaged(stk, pFunc) /\ stk[pFunc].t = "ilstub"
\* Frame::UpdateRegDisplay: the register display of the managed caller
UpdateRegDisplay(it) ==
    [it EXCEPT !.SP = ReturnAddress(it.pFrame), !.ControlPC = ReturnAddress(it.pFrame)]
\* ICodeManager::EnsureCallerContextIsValid + GetSP(pCallerContext)
CallerSP(sp) == NextRegion(stk, sp)
\* ICodeManager::GetGSCookieAddr: the cookie of a frame lives in that frame
GetGSCookieAddr(codeInfo) == IF stk[codeInfo].gs THEN codeInfo ELSE NullAddr
\* Thread::GetCachedStackLimit <= sp < Thread::GetCachedStackBase
InStackRange(sp) == sp \in 1..(Len(stk) + 1)
\* SPs outside the stack, as a bogus CONTEXT makes the unwinder produce: at or
\* above the stack base, and below the stack limit
BogusSP == FRAME_TOP + 1
UnderSP == 0 - 1

\* the unwind of the frame the iterator is at is the one that goes wrong
UnwindFaultAt(it) ==
    unwindFault # <<>> /\ unwindFault[1] = it.SP /\ ~it.unwindFaulted

\* ICodeManager::UnwindStackFrame: FALSE when it fails; from a bogus CONTEXT it
\* may also yield an SP above the stack ("oob") or below it ("under") or a
\* wrong SP inside it ("low")
UnwindSucceeds(it) == ~(UnwindFaultAt(it) /\ unwindFault[2] = "fail")

UnwindStackFrame(it) ==
    IF UnwindFaultAt(it)
    THEN CASE unwindFault[2] = "oob" ->
                [it EXCEPT !.SP = BogusSP, !.ControlPC = NullAddr, !.unwindFaulted = TRUE]
           [] unwindFault[2] = "under" ->
                [it EXCEPT !.SP = UnderSP, !.unwindFaulted = TRUE]
           [] unwindFault[2] = "low" ->
                [it EXCEPT !.SP = 1, !.ControlPC = ContextIP(1), !.unwindFaulted = TRUE]
           [] OTHER -> it
    ELSE [it EXCEPT !.SP = CallerSP(it.SP), !.ControlPC = ContextIP(CallerSP(it.SP))]

\* StackFrameIterator::ProcessIp
ProcessIp(it, Ip) == [it EXCEPT !.codeInfo = Ip, !.isFrameless = IsManagedCode(Ip)]

\* StackFrameIterator::CheckForSkippedFrames: <<returned value, iterator>>
RECURSIVE SkippedFramesLoop(_, _)
SkippedFramesLoop(it, pvReferenceSP) ==
    IF it.pFrame # FRAME_TOP /\ it.pFrame < pvReferenceSP
    THEN IF HANDLESKIPPEDFRAMES \in it.m_flags
         THEN LET n == GotoNextFrame(it)
              IN  SkippedFramesLoop(
                      IF STACKWALKER_MAY_POP_FRAMES /\ POPFRAMES \in it.m_flags
                      THEN [n EXCEPT !.threadFrame = n.pFrame] ELSE n,
                      pvReferenceSP)
         ELSE <<TRUE, [it EXCEPT !.isFrameless = FALSE,
                                 \* GetActualInteropMethodDesc() or GetFunction()
                                 !.pFunc = IF stk[it.pFrame].t \in {"ICF_active", "ICF_inactive"}
                                              /\ it.pFunc # NullAddr /\ IsILStub(it.pFunc)
                                           THEN it.pFrame
                                           ELSE GetFunction(it.pFrame),
                                 !.m_frameState = SFITER_SKIPPED_FRAME_FUNCTION]>>
    ELSE <<FALSE, it>>

CheckForSkippedFrames_mutSurface(it) ==
    With(SkippedFramesLoop([it EXCEPT !.m_flags = @ \ {HANDLESKIPPEDFRAMES}],
                           IF PROCESS_EXPLICIT_FRAME_BEFORE_MANAGED_FRAME
                           THEN CallerSP(it.SP) ELSE it.SP),
         LAMBDA r : <<r[1], [r[2] EXCEPT !.m_flags = it.m_flags]>>)
CheckForSkippedFrames_mut(it) == SkippedFramesLoop(it, it.SP)
CheckForSkippedFrames(it) ==
    SkippedFramesLoop(it, IF PROCESS_EXPLICIT_FRAME_BEFORE_MANAGED_FRAME
                          THEN CallerSP(it.SP) ELSE it.SP)

\* StackFrameIterator::PreProcessingForManagedFrames
PreProcessingForManagedFrames(it) ==
    LET c == IF DACCESS_COMPILE THEN it
             ELSE [it EXCEPT !.m_pCachedGSCookie = GetGSCookieAddr(it.codeInfo)]
        g == IF SKIP_GSCOOKIE_CHECK \notin c.m_flags /\ c.m_pCachedGSCookie # NullAddr
             THEN SetCurGSCookie(c, c.m_pCachedGSCookie)
             ELSE c
    IN  [g EXCEPT !.m_frameState = SFITER_FRAMELESS_METHOD]

\* StackFrameIterator::PostProcessingForManagedFrames
PostProcessingForManagedFrames_mut(it) ==
    With(IF ELIMINATE_FEF THEN WalkToPosition(it, it.SP, POPFRAMES \in it.m_flags) ELSE it,
         LAMBDA e :
             IF IsManagedCode(e.ControlPC)
             THEN ProcessIp(e, e.ControlPC)
             ELSE [ProcessIp(e, e.ControlPC) EXCEPT !.m_frameState = SFITER_NATIVE_MARKER_FRAME])
PostProcessingForManagedFrames(it) ==
    With(IF ELIMINATE_FEF THEN WalkToPosition(it, it.SP, POPFRAMES \in it.m_flags) ELSE it,
         LAMBDA e :
             IF IsManagedCode(e.ControlPC)
             THEN ProcessIp(e, e.ControlPC)
             ELSE [ProcessIp(e, e.ControlPC) EXCEPT !.m_frameState = SFITER_NATIVE_MARKER_FRAME,
                                                    !.isNativeMarker = TRUE])

\* StackFrameIterator::PostProcessingForNoFrameTransition
PostProcessingForNoFrameTransition(it) ==
    IF ~ELIMINATE_FEF
    THEN it
    ELSE LET pContext == GetContext(it)
             f == [it EXCEPT !.codeInfo = ContextIP(pContext),
                             !.SP = pContext, !.ControlPC = ContextIP(pContext),
                             !.isFrameless = TRUE,
                             !.isInterrupted = TRUE,
                             \* the CONTEXT of a fault: CONTEXT_EXCEPTION_ACTIVE
                             !.hasFaulted = TRUE,
                             !.isIPadjusted = FALSE,
                             !.exUse = IF STACKWALKER_MAY_POP_FRAMES /\ POPFRAMES \in it.m_flags
                                       THEN @ \ {it.m_pExInfo} ELSE @]
         IN  [WalkOne(f) EXCEPT !.isNoFrameTransition = FALSE,
                                !.taNoFrameTransitionMarker = NullAddr]

\* StackFrameIterator::ProcessCurrentFrame, from "if (!fDone)" on
ProcessCurrentFrameRest_mutNoDone(it) ==
    IF ~IsValid(it)
    THEN IsValidIter(it)
    ELSE With(IsValidIter(it), LAMBDA v :
         IF v.isFrameless
         THEN With([v EXCEPT !.pFunc = v.codeInfo, !.m_cachedCodeInfo = v.codeInfo], LAMBDA c :
              IF PROCESS_EXPLICIT_FRAME_BEFORE_MANAGED_FRAME
              THEN With(CheckForSkippedFrames(c), LAMBDA skipped :
                   IF skipped[1] THEN skipped[2]
                   ELSE PreProcessingForManagedFrames(skipped[2]))
              ELSE PreProcessingForManagedFrames(c))
         ELSE [v EXCEPT !.pFunc = GetFunction(v.pFrame),
                        !.m_frameState = SFITER_FRAME_FUNCTION])
ProcessCurrentFrameRest(it) ==
    IF ~IsValid(it)
    THEN [IsValidIter(it) EXCEPT !.m_frameState = SFITER_DONE]
    ELSE With(IsValidIter(it), LAMBDA v :
         IF v.isFrameless
         THEN With([v EXCEPT !.pFunc = v.codeInfo, !.m_cachedCodeInfo = v.codeInfo], LAMBDA c :
              IF PROCESS_EXPLICIT_FRAME_BEFORE_MANAGED_FRAME
              THEN With(CheckForSkippedFrames(c), LAMBDA skipped :
                   IF skipped[1] THEN skipped[2]
                   ELSE PreProcessingForManagedFrames(skipped[2]))
              ELSE PreProcessingForManagedFrames(c))
         ELSE [v EXCEPT !.pFunc = GetFunction(v.pFrame),
                        !.m_frameState = SFITER_FRAME_FUNCTION])

\* StackFrameIterator::ProcessCurrentFrame, the resync from an ExInfo CONTEXT
\* (ELIMINATE_FEF): <<fDone, iterator>>
ResyncFromExInfo(it) ==
    IF ELIMINATE_FEF /\ ~it.isFrameless /\ it.m_pExInfo # NullAddr
    THEN With(WalkToManaged(it), LAMBDA w :
         IF GetSPFromContext(w) # NullAddr /\ GetSPFromContext(w) < w.pFrame
         THEN IF exInfo[w.m_pExInfo].ebp
              THEN <<FALSE, PostProcessingForNoFrameTransition(w)>>
              ELSE <<TRUE, [w EXCEPT !.m_frameState = SFITER_NO_FRAME_TRANSITION,
                                     !.isNoFrameTransition = TRUE,
                                     !.taNoFrameTransitionMarker = GetSPFromContext(w)]>>
         ELSE <<FALSE, w>>)
    ELSE <<FALSE, it>>

\* StackFrameIterator::ProcessCurrentFrame
ProcessCurrentFrame(it) ==
    With(CheckGSCookies(it), LAMBDA g :
    IF g.failFast
    THEN g
    ELSE IF g.m_frameState = SFITER_UNINITIALIZED /\ ~g.isFrameless
         THEN [g EXCEPT !.m_frameState = SFITER_INITIAL_NATIVE_CONTEXT]
         ELSE With(ResyncFromExInfo([g EXCEPT !.m_frameState = SFITER_UNINITIALIZED]),
                   LAMBDA r : IF r[1] THEN r[2] ELSE ProcessCurrentFrameRest(r[2])))

\* NextRaw: leave the explicit Frame the iterator is at.  With POPFRAMES the
\* Frame gets ExceptionUnwind() and is unlinked from the thread's chain.
LeaveFrame_mutSilent(it) ==
    IF STACKWALKER_MAY_POP_FRAMES /\ POPFRAMES \in it.m_flags
    THEN LET n == GotoNextFrame(it)
         IN  [n EXCEPT !.threadFrame = n.pFrame]
    ELSE GotoNextFrame(it)
LeaveFrame_mut(it) ==
    LET n == GotoNextFrame(it)
    IN  [n EXCEPT !.exceptionUnwinds = Append(@, it.pFrame), !.threadFrame = n.pFrame]
LeaveFrame(it) ==
    IF STACKWALKER_MAY_POP_FRAMES /\ POPFRAMES \in it.m_flags
    THEN LET n == GotoNextFrame(it)
         IN  [n EXCEPT !.exceptionUnwinds = Append(@, it.pFrame),
                       !.threadFrame = n.pFrame]
    ELSE GotoNextFrame(it)

\* after PostProcessingForManagedFrames: "if (m_frameState == SFITER_NATIVE_MARKER_FRAME)
\* goto Cleanup" or ProcessCurrentFrame
NextRawAfterPostProcessing(p) ==
    IF p.m_frameState = SFITER_NATIVE_MARKER_FRAME
    THEN <<SWA_CONTINUE, p>>
    ELSE <<SWA_CONTINUE, ProcessCurrentFrame(p)>>

\* NextRaw, m_frameState == SFITER_SKIPPED_FRAME_FUNCTION
NextRawSkippedFrame(it) ==
    With(CheckForSkippedFrames(LeaveFrame(it)), LAMBDA skipped :
    IF skipped[1]
    THEN <<SWA_CONTINUE, skipped[2]>>
    ELSE IF ~PROCESS_EXPLICIT_FRAME_BEFORE_MANAGED_FRAME
         THEN NextRawAfterPostProcessing(PostProcessingForManagedFrames(skipped[2]))
         ELSE <<SWA_CONTINUE,
                PreProcessingForManagedFrames(
                    [skipped[2] EXCEPT !.isFrameless = TRUE,
                                       !.codeInfo = skipped[2].m_cachedCodeInfo,
                                       !.pFunc = skipped[2].m_cachedCodeInfo])>>)

\* MethodDesc::IsSynchronized() and ICodeManager::IsInSynchronizedRegion
IsSynchronized(pFunc) == IsManaged(stk, pFunc) /\ stk[pFunc].t = "synchronized"

\* NextRaw, m_frameState == SFITER_FRAMELESS_METHOD: "find out if we need to
\* leave monitors" (on x86 the VM leaves the monitor of a synchronized method)
LeaveMonitors(it) ==
    IF TARGET_X86 /\ STACKWALKER_MAY_POP_FRAMES /\ POPFRAMES \in it.m_flags
       /\ IsSynchronized(it.pFunc)
    THEN [it EXCEPT !.monitorsLeft = Append(@, it.SP)]
    ELSE it

\* NextRaw, m_frameState == SFITER_FRAMELESS_METHOD, from the unwind on
NextRawFrameless_mut(it) ==
    IF ~UnwindSucceeds(it)
    THEN <<SWA_FAILED, [it EXCEPT !.unwindFaulted = TRUE]>>
    ELSE With(UnwindStackFrame(it), LAMBDA u :
         With([u EXCEPT !.isFirst = FALSE, !.isInterrupted = FALSE,
                        !.hasFaulted = FALSE, !.isIPadjusted = FALSE], LAMBDA c :
         IF PROCESS_EXPLICIT_FRAME_BEFORE_MANAGED_FRAME
         THEN NextRawAfterPostProcessing(PostProcessingForManagedFrames(c))
         ELSE With(CheckForSkippedFrames(c), LAMBDA skipped :
              IF skipped[1]
              THEN <<SWA_CONTINUE, skipped[2]>>
              ELSE NextRawAfterPostProcessing(
                       PostProcessingForManagedFrames(skipped[2])))))
NextRawFrameless(it) ==
    IF ~UnwindSucceeds(it)
    THEN <<SWA_FAILED, [it EXCEPT !.unwindFaulted = TRUE]>>
    ELSE With(UnwindStackFrame(it), LAMBDA u :
         \* FAIL_IF_SPECULATIVE_WALK(newSP within the cached stack limit and base)
         IF PROFILER_DO_STACK_SNAPSHOT \in it.m_flags /\ ~InStackRange(u.SP)
         THEN <<SWA_FAILED, u>>
         ELSE IF ~InStackRange(u.SP)
         THEN <<SWA_CONTINUE, AssertFails(u)>>
         ELSE With([u EXCEPT !.isFirst = FALSE, !.isInterrupted = FALSE,
                             !.hasFaulted = FALSE, !.isIPadjusted = FALSE], LAMBDA c :
              IF PROCESS_EXPLICIT_FRAME_BEFORE_MANAGED_FRAME
              THEN NextRawAfterPostProcessing(PostProcessingForManagedFrames(c))
              ELSE With(CheckForSkippedFrames(c), LAMBDA skipped :
                   IF skipped[1]
                   THEN <<SWA_CONTINUE, skipped[2]>>
                   ELSE NextRawAfterPostProcessing(
                            PostProcessingForManagedFrames(skipped[2])))))

\* NextRaw, m_frameState == SFITER_FRAME_FUNCTION
NextRawFrameFunction_mutKeep(it) ==
    LET pInlinedFrame == FrameHasActiveCall(it.pFrame)
        a == [it EXCEPT !.isFirst = FALSE, !.isInterrupted = FALSE]
        p == IF HasReturnAddress(a.pFrame) THEN ProcessIp(a, ReturnAddress(a.pFrame)) ELSE a
        u == IF HasReturnAddress(a.pFrame) /\ p.isFrameless THEN UpdateRegDisplay(p) ELSE p
        n == IF ~(pInlinedFrame \/ p.isFrameless) THEN LeaveFrame(u) ELSE u
    IN  <<SWA_CONTINUE, ProcessCurrentFrame(n)>>
NextRawFrameFunction_mut(it) ==
    LET a == [it EXCEPT !.isFirst = FALSE, !.isInterrupted = FALSE]
        p == IF HasReturnAddress(a.pFrame) THEN ProcessIp(a, ReturnAddress(a.pFrame)) ELSE a
        u == IF HasReturnAddress(a.pFrame) /\ p.isFrameless THEN UpdateRegDisplay(p) ELSE p
    IN  <<SWA_CONTINUE, ProcessCurrentFrame(LeaveFrame(u))>>
NextRawFrameFunction(it) ==
    LET pInlinedFrame == FrameHasActiveCall(it.pFrame)
        \* no Frame of the model is resumable or an ExceptionFrame
        a == [it EXCEPT !.isFirst = FALSE, !.isInterrupted = FALSE]
        p == IF HasReturnAddress(a.pFrame) THEN ProcessIp(a, ReturnAddress(a.pFrame)) ELSE a
        u == IF HasReturnAddress(a.pFrame) /\ p.isFrameless THEN UpdateRegDisplay(p) ELSE p
        n == IF ~pInlinedFrame THEN LeaveFrame(u) ELSE u
    IN  <<SWA_CONTINUE, ProcessCurrentFrame(n)>>

\* StackFrameIterator::NextRaw: <<returned value, iterator>>
NextRaw(it) ==
    CASE it.m_frameState = SFITER_SKIPPED_FRAME_FUNCTION -> NextRawSkippedFrame(it)
      [] it.m_frameState = SFITER_FRAMELESS_METHOD -> NextRawFrameless(LeaveMonitors(it))
      [] it.m_frameState = SFITER_FRAME_FUNCTION -> NextRawFrameFunction(it)
      [] it.m_frameState = SFITER_NO_FRAME_TRANSITION /\ ELIMINATE_FEF ->
            <<SWA_CONTINUE, ProcessCurrentFrame(PostProcessingForNoFrameTransition(it))>>
      [] it.m_frameState = SFITER_NATIVE_MARKER_FRAME ->
            <<SWA_CONTINUE, ProcessCurrentFrame([it EXCEPT !.isNativeMarker = FALSE])>>
      [] it.m_frameState = SFITER_INITIAL_NATIVE_CONTEXT ->
            <<SWA_CONTINUE, ProcessCurrentFrame(it)>>
      [] OTHER -> <<SWA_FAILED, it>>

\* ---- exception trackers (FEATURE_EH_FUNCLETS) ----
\* On funclet builds a record of exInfo is an exception tracker that lives on
\* the stack inside the item at addr: pass is m_passNumber, enclosing is
\* m_csfEnclosingClause, lastIP says m_lastReportedFunclet.IP != 0, handler is
\* m_sfCallerOfActualHandlerFrame, and the items lo..hi are the stack range
\* the exception has already unwound.
ExTracker(addr, pass, enclosing, lastIP, handler, lo, hi) ==
    [addr |-> addr, pass |-> pass, enclosing |-> enclosing, lastIP |-> lastIP,
     handler |-> handler, lo |-> lo, hi |-> hi]

\* StackFrame::SetMaxVal(): "skip one frame"
SfMaxVal == FRAME_TOP + 2

\* GetCurrentExceptionTracker() != NULL, and comparisons of a stack address
\* with the address of that tracker (which lies inside the item at addr)
HasExInfo == exInfo # <<>>
AboveExInfo(sp) == sp > exInfo[1].addr
BelowExInfo(sp) == sp <= exInfo[1].addr

\* CrawlFrame::IsFunclet / IsFilterFunclet
IsFunclet(it) == it.isFrameless /\ stk[it.codeInfo].t \in {"funclet", "filter"}
IsFilterFunclet(it) == it.isFrameless /\ stk[it.codeInfo].t = "filter"

\* the stack address ExInfo looks a position up by
CrawlAddr(it) == IF it.isFrameless THEN it.SP ELSE it.pFrame

\* ExInfo::HasFrameBeenUnwoundByAnyActiveException
HasFrameBeenUnwoundByAnyActiveException(it) ==
    \E i \in DOMAIN exInfo : exInfo[i].lo <= CrawlAddr(it) /\ CrawlAddr(it) <= exInfo[i].hi

\* ExInfo::IsInStackRegionUnwoundByCurrentException
IsInStackRegionUnwoundByCurrentException(it) ==
    HasExInfo /\ exInfo[1].lo <= CrawlAddr(it) /\ CrawlAddr(it) <= exInfo[1].hi

\* ExInfo::FindParentStackFrameForStackWalk: no parent is looked up for a
\* filter funclet unless the walk is for GC reporting
FindParentStackFrameForStackWalk(it, fForGCReporting) ==
    IF IsFilterFunclet(it) /\ ~fForGCReporting
    THEN NullAddr
    ELSE funcletParent[it.SP]

\* ExInfo::IsUnwoundToTargetParentFrame: the caller SP of the current frame
IsUnwoundToTargetParentFrame(it, sfToCheck) == CallerSP(it.SP) = sfToCheck

\* !ExecutionManager::IsManagedCode(GetIP(pCallerContext))
CallerIsNative(it) == ~IsManaged(stk, CallerSP(it.SP))

\* StackFrameIterator::ResetGCRefReportingState
ResetGCRefReportingState(it, ResetOnlyIntermediaryState) ==
    [it EXCEPT !.m_sfFuncletParent = IF ResetOnlyIntermediaryState THEN @ ELSE NullAddr,
               !.m_fProcessNonFilterFunclet = IF ResetOnlyIntermediaryState THEN @ ELSE FALSE,
               !.m_sfIntermediaryFuncletParent = NullAddr,
               !.m_fProcessIntermediaryNonFilterFunclet = FALSE]

\* Filter, the head of each loop iteration (FEATURE_EH_FUNCLETS)
FilterLoopHead(it) ==
    LET frameSP == IF it.m_frameState = SFITER_FRAME_FUNCTION THEN it.pFrame ELSE it.SP
        simulate == /\ exInfo[1].pass = 2
                    /\ exInfo[1].enclosing # NullAddr
                    /\ it.m_sfFuncletParent = NullAddr
                    /\ exInfo[1].lastIP
        e == IF /\ GC_FUNCLET_REFERENCE_REPORTING \in it.m_flags
                /\ HasExInfo /\ AboveExInfo(frameSP)
                /\ ~it.m_movedPastFirstExInfo
             THEN IF simulate
                  THEN [it EXCEPT !.m_sfFuncletParent = exInfo[1].enclosing,
                                  !.m_sfParent = exInfo[1].enclosing,
                                  !.m_fProcessNonFilterFunclet = TRUE,
                                  !.m_fDidFuncletReportGCReferences = FALSE,
                                  !.m_fFuncletNotSeen = TRUE,
                                  !.m_movedPastFirstExInfo = TRUE]
                  ELSE [it EXCEPT !.m_movedPastFirstExInfo = TRUE]
             ELSE it
    IN  [e EXCEPT !.fShouldParentToFuncletReportSavedFuncletSlots = FALSE,
                  !.fShouldParentToFuncletSkipReportingGCReferences = FALSE,
                  !.fShouldCrawlframeReportGCReferences = TRUE,
                  !.fShouldSaveFuncletInfo = FALSE,
                  !.fShouldParentFrameUseUnwindTargetPCforGCReporting = FALSE]

\* Filter, ProcessFuncletsForGCReporting: the parent of the filter funclet is
\* reached (lines 1730-1751)
ReachedFilterParent_mut(it) ==
    ResetGCRefReportingState(
        [it EXCEPT !.fShouldParentToFuncletSkipReportingGCReferences = TRUE], FALSE)
ReachedFilterParent(it) ==
    ResetGCRefReportingState(
        [it EXCEPT !.fShouldParentToFuncletSkipReportingGCReferences = FALSE], FALSE)

\* Filter, case SFITER_FRAMELESS_METHOD: the do { } while (fRecheckCurrentFrame)
\* loop at ProcessFuncletsForGCReporting.  loc holds the locals
\* fSkipFuncletCallback and fSkippingFunclet; the result is <<iterator, loc>>.
RECURSIVE ProcessFuncletsForGCReporting(_, _)
ProcessFuncletsForGCReporting(it, loc) ==
    IF GC_FUNCLET_REFERENCE_REPORTING \notin it.m_flags
    THEN <<it, loc>>
    ELSE IF it.m_sfFuncletParent # NullAddr
    THEN \* a funclet parent is already being looked for
         IF ~it.m_fProcessNonFilterFunclet /\ ~it.m_fProcessIntermediaryNonFilterFunclet
         THEN IF IsUnwoundToTargetParentFrame(it, it.m_sfFuncletParent)
              THEN \* reached the parent of the filter funclet: recheck this frame
                   ProcessFuncletsForGCReporting(ReachedFilterParent(it), loc)
              ELSE IF IsFunclet(it)
                   THEN \* a non-filter funclet met while processing a filter funclet
                        LET sf == FindParentStackFrameForStackWalk(it, TRUE)
                        IN  <<[it EXCEPT !.m_sfIntermediaryFuncletParent = sf,
                                         !.m_fProcessIntermediaryNonFilterFunclet = TRUE,
                                         !.m_sfParent = sf,
                                         !.m_forceReportingWhileSkipping =
                                             IF CallerIsNative(it) THEN "LookForManagedFrame" ELSE @],
                              [loc EXCEPT !.fSkipFuncletCallback = FALSE]>>
                   ELSE <<it, loc>>
         ELSE <<it, loc>>
    ELSE IF IsFunclet(it)
    THEN LET sf == FindParentStackFrameForStackWalk(it, TRUE)
             fFrameWasUnwound == HasFrameBeenUnwoundByAnyActiveException(it)
             f == [it EXCEPT !.m_sfFuncletParent = sf]
         IN  IF sf = NullAddr
             THEN <<f, loc>>
             ELSE IF ~IsFilterFunclet(it)
             THEN LET first == /\ ~it.m_fFoundFirstFunclet
                               /\ HasExInfo /\ BelowExInfo(it.SP) /\ AboveExInfo(sf)
                  IN  <<[f EXCEPT !.m_fProcessNonFilterFunclet = TRUE,
                                  !.m_sfParent = sf,
                                  !.fShouldSaveFuncletInfo = IF first THEN TRUE ELSE @,
                                  !.m_fFoundFirstFunclet = IF first THEN TRUE ELSE @,
                                  !.m_forceReportingWhileSkipping =
                                      IF ~fFrameWasUnwound /\ CallerIsNative(it)
                                      THEN "LookForManagedFrame" ELSE @],
                        [loc EXCEPT !.fSkipFuncletCallback = FALSE]>>
             ELSE <<[f EXCEPT !.m_fProcessNonFilterFunclet = FALSE], loc>>
    ELSE <<it, loc>>

\* Filter, case SFITER_FRAMELESS_METHOD: the parent of a non-filter funclet is
\* reached by a frame that the exception has not unwound (lines 1982-2054)
ReachedParentNotUnwound_mut(it) ==
    IF it.m_fProcessIntermediaryNonFilterFunclet \/ it.m_fProcessNonFilterFunclet
    THEN ResetGCRefReportingState(
             [it EXCEPT !.fShouldParentToFuncletSkipReportingGCReferences = FALSE],
             it.m_fProcessIntermediaryNonFilterFunclet)
    ELSE it
ReachedParentNotUnwound(it) ==
    IF it.m_fProcessIntermediaryNonFilterFunclet \/ it.m_fProcessNonFilterFunclet
    THEN LET handling == HasExInfo /\ exInfo[1].handler = it.m_sfFuncletParent
             r == IF it.m_fDidFuncletReportGCReferences
                  THEN [it EXCEPT !.fShouldParentToFuncletSkipReportingGCReferences = TRUE]
                  ELSE IF handling
                  THEN [it EXCEPT !.m_fDidFuncletReportGCReferences = TRUE,
                                  !.fShouldParentFrameUseUnwindTargetPCforGCReporting = TRUE,
                                  !.fShouldParentToFuncletSkipReportingGCReferences = FALSE]
                  ELSE IF ~IsFunclet(it)
                  THEN [it EXCEPT !.fShouldParentToFuncletReportSavedFuncletSlots =
                                      IF it.m_fFuncletNotSeen THEN TRUE ELSE @,
                                  !.m_fFuncletNotSeen = FALSE,
                                  !.m_fDidFuncletReportGCReferences = TRUE,
                                  !.fShouldParentToFuncletSkipReportingGCReferences = TRUE]
                  ELSE [it EXCEPT !.fShouldParentToFuncletSkipReportingGCReferences = TRUE]
         IN  ResetGCRefReportingState(r, it.m_fProcessIntermediaryNonFilterFunclet)
    ELSE it

\* the same for a frame the exception has unwound (lines 1930-1944)
ReachedParentUnwound(it) ==
    IF it.m_fProcessIntermediaryNonFilterFunclet \/ it.m_fProcessNonFilterFunclet
    THEN ResetGCRefReportingState(
             [it EXCEPT !.fShouldParentToFuncletSkipReportingGCReferences = TRUE,
                        !.m_fDidFuncletReportGCReferences = TRUE],
             it.m_fProcessIntermediaryNonFilterFunclet)
    ELSE it

\* m_sfParent.IsMaxVal() || ExInfo::IsUnwoundToTargetParentFrame(&m_crawl, m_sfParent)
ReachedTarget(it) ==
    it.m_sfParent # NullAddr
    /\ (it.m_sfParent = SfMaxVal \/ IsUnwoundToTargetParentFrame(it, it.m_sfParent))

FilterFlags == {FUNCTIONSONLY, SKIPFUNCLETS}

RECURSIVE FilterFramelessFunclets(_, _)

\* Filter, case SFITER_FRAMELESS_METHOD, below the funclet bookkeeping: the
\* frame is skipped because the exception has unwound it (lines 1885-1968)
FilterUnwoundFrame(u, loc) ==
    IF GC_FUNCLET_REFERENCE_REPORTING \in u.m_flags /\ ReachedTarget(u)
    THEN With([ReachedParentUnwound(u) EXCEPT !.m_sfParent = NullAddr], LAMBDA r :
         IF IsFunclet(r)
         THEN FilterFramelessFunclets(r, [loc EXCEPT !.fSkippingFunclet = FALSE])
         ELSE <<~r.fShouldCrawlframeReportGCReferences, r>>)
    ELSE <<~u.fShouldCrawlframeReportGCReferences, u>>

\* the same for a frame that has not been unwound, from the FUNCTIONSONLY /
\* SKIPFUNCLETS test on (lines 2089-2150)
FilterSkipOrReport_mut(s, loc) ==
    IF s.m_flags \cap FilterFlags # {}
    THEN <<~(s.m_sfParent # NullAddr \/ IsILStub(s.pFunc)), s>>
    ELSE <<TRUE, [s EXCEPT !.m_forceReportingWhileSkipping =
                      IF loc.fSkipFuncletCallback /\ @ = "LookForManagedFrame"
                      THEN "LookForMarkerFrame" ELSE @]>>
FilterSkipOrReport(s, loc) ==
    IF s.m_flags \cap FilterFlags # {}
    THEN <<~(s.m_sfParent # NullAddr \/ IsILStub(s.pFunc)), s>>
    ELSE IF loc.fSkipFuncletCallback /\ GC_FUNCLET_REFERENCE_REPORTING \in s.m_flags
    THEN IF s.m_sfParent # NullAddr /\ s.m_forceReportingWhileSkipping = "Off"
         THEN <<FALSE, s>>
         ELSE <<TRUE, [s EXCEPT !.m_forceReportingWhileSkipping =
                           IF @ = "LookForManagedFrame" THEN "LookForMarkerFrame" ELSE @]>>
    ELSE <<TRUE, s>>

\* the frame has not been unwound (lines 1970-2150)
FilterLiveFrame(u, loc) ==
    With(IF ReachedTarget(u)
         THEN [ReachedParentNotUnwound(u) EXCEPT !.m_sfParent = NullAddr]
         ELSE u, LAMBDA r :
    IF r.m_sfParent = NullAddr /\ IsFunclet(r)
    THEN IF GC_FUNCLET_REFERENCE_REPORTING \in r.m_flags
         THEN FilterFramelessFunclets(r, loc)
         ELSE FilterSkipOrReport(
                  [r EXCEPT !.m_sfParent = FindParentStackFrameForStackWalk(r, FALSE)], loc)
    ELSE FilterSkipOrReport(r, loc))

\* Filter, case SFITER_FRAMELESS_METHOD after ProcessFuncletsForGCReporting
FilterFramelessTail(it, loc) ==
    IF it.m_fProcessNonFilterFunclet \/ it.m_fProcessIntermediaryNonFilterFunclet
       \/ it.m_flags \cap FilterFlags # {}
    THEN IF GC_FUNCLET_REFERENCE_REPORTING \in it.m_flags
         THEN IF HasFrameBeenUnwoundByAnyActiveException(it)
              THEN FilterUnwoundFrame(
                       [it EXCEPT !.fShouldCrawlframeReportGCReferences = FALSE,
                                  !.m_fDidFuncletReportGCReferences =
                                      IF IsFunclet(it) /\ ~loc.fSkippingFunclet
                                      THEN FALSE ELSE @],
                       loc)
              ELSE FilterLiveFrame(it, loc)
         ELSE IF it.m_flags \cap FilterFlags # {}
                 /\ IsInStackRegionUnwoundByCurrentException(it)
              THEN FilterUnwoundFrame(it, loc)
              ELSE FilterLiveFrame(it, loc)
    ELSE IF GC_FUNCLET_REFERENCE_REPORTING \in it.m_flags
            /\ HasFrameBeenUnwoundByAnyActiveException(it)
         THEN <<TRUE, [it EXCEPT !.fShouldCrawlframeReportGCReferences = FALSE]>>
         ELSE <<TRUE, it>>

\* Filter, case SFITER_FRAMELESS_METHOD on funclet builds: <<fStop, iterator>>
FilterFramelessFunclets(it, loc) ==
    With(ProcessFuncletsForGCReporting(it, loc),
         LAMBDA pf : FilterFramelessTail(pf[1], pf[2]))

\* Filter, case SFITER_FRAMELESS_METHOD: <<fStop, iterator>>
FilterFrameless(it, fSkippingFunclet) ==
    IF FEATURE_EH_FUNCLETS
    THEN FilterFramelessFunclets(it, [fSkipFuncletCallback |-> TRUE,
                                      fSkippingFunclet |-> fSkippingFunclet])
    ELSE <<~(FUNCTIONSONLY \in it.m_flags /\ IsILStub(it.pFunc)), it>>

\* Filter, cases SFITER_FRAME_FUNCTION and SFITER_SKIPPED_FRAME_FUNCTION
FilterFrameFunction_mut(it, fSkippingFunclet) ==
    IF fSkippingFunclet
    THEN <<FALSE, it>>
    ELSE IF FEATURE_EH_FUNCLETS /\ GC_FUNCLET_REFERENCE_REPORTING \in it.m_flags
    THEN IF HasFrameBeenUnwoundByAnyActiveException(it)
         THEN <<FALSE, it>>
         ELSE <<it.pFunc # NullAddr \/ FUNCTIONSONLY \notin it.m_flags, it>>
    ELSE IF /\ FEATURE_EH_FUNCLETS /\ it.m_flags \cap FilterFlags # {}
            /\ IsInStackRegionUnwoundByCurrentException(it)
    THEN <<FALSE, it>>
    ELSE <<it.pFunc # NullAddr \/ FUNCTIONSONLY \notin it.m_flags, it>>
FilterFrameFunction_mutStop(it, fSkippingFunclet) ==
    IF fSkippingFunclet
    THEN <<FALSE, it>>
    ELSE IF FEATURE_EH_FUNCLETS /\ GC_FUNCLET_REFERENCE_REPORTING \in it.m_flags
    THEN <<TRUE,
           IF HasFrameBeenUnwoundByAnyActiveException(it)
           THEN [it EXCEPT !.fShouldCrawlframeReportGCReferences = FALSE]
           ELSE it>>
    ELSE IF /\ FEATURE_EH_FUNCLETS /\ it.m_flags \cap FilterFlags # {}
            /\ IsInStackRegionUnwoundByCurrentException(it)
    THEN <<FALSE, it>>
    ELSE <<TRUE, it>>
FilterFrameFunction(it, fSkippingFunclet) ==
    IF fSkippingFunclet
    THEN <<FALSE, it>>
    ELSE IF FEATURE_EH_FUNCLETS /\ GC_FUNCLET_REFERENCE_REPORTING \in it.m_flags
    THEN <<it.pFunc # NullAddr \/ FUNCTIONSONLY \notin it.m_flags,
           IF HasFrameBeenUnwoundByAnyActiveException(it)
           THEN [it EXCEPT !.fShouldCrawlframeReportGCReferences = FALSE]
           ELSE it>>
    ELSE IF /\ FEATURE_EH_FUNCLETS /\ it.m_flags \cap FilterFlags # {}
            /\ IsInStackRegionUnwoundByCurrentException(it)
    THEN <<FALSE, it>>
    ELSE <<it.pFunc # NullAddr \/ FUNCTIONSONLY \notin it.m_flags, it>>

\* Filter, the switch on m_frameState: <<fStop, iterator>>
FilterSwitch_mut(it) ==
    With(IF FEATURE_EH_FUNCLETS THEN FilterLoopHead(it) ELSE it, LAMBDA h :
    With(FEATURE_EH_FUNCLETS /\ h.m_sfParent # NullAddr, LAMBDA fSkippingFunclet :
    CASE h.m_frameState = SFITER_FRAMELESS_METHOD -> FilterFrameless(h, fSkippingFunclet)
      [] h.m_frameState \in {SFITER_FRAME_FUNCTION, SFITER_SKIPPED_FRAME_FUNCTION} ->
            FilterFrameFunction(h, fSkippingFunclet)
      [] h.m_frameState = SFITER_NO_FRAME_TRANSITION ->
            <<~fSkippingFunclet /\ NOTIFY_ON_NO_FRAME_TRANSITIONS \in h.m_flags, h>>
      [] h.m_frameState = SFITER_NATIVE_MARKER_FRAME ->
            <<~fSkippingFunclet /\ NOTIFY_ON_INITIAL_NATIVE_CONTEXT \in h.m_flags,
              [h EXCEPT !.m_forceReportingWhileSkipping =
                   IF @ = "LookForMarkerFrame" THEN "Off" ELSE @]>>
      [] h.m_frameState = SFITER_INITIAL_NATIVE_CONTEXT ->
            <<~fSkippingFunclet /\ NOTIFY_ON_INITIAL_NATIVE_CONTEXT \in h.m_flags, h>>))
FilterSwitch(it) ==
    With(IF FEATURE_EH_FUNCLETS THEN FilterLoopHead(it) ELSE it, LAMBDA h :
    With(FEATURE_EH_FUNCLETS /\ h.m_sfParent # NullAddr, LAMBDA fSkippingFunclet :
    CASE h.m_frameState = SFITER_FRAMELESS_METHOD -> FilterFrameless(h, fSkippingFunclet)
      [] h.m_frameState \in {SFITER_FRAME_FUNCTION, SFITER_SKIPPED_FRAME_FUNCTION} ->
            FilterFrameFunction(h, fSkippingFunclet)
      [] h.m_frameState = SFITER_NO_FRAME_TRANSITION ->
            <<~fSkippingFunclet /\ NOTIFY_ON_NO_FRAME_TRANSITIONS \in h.m_flags, h>>
      [] h.m_frameState = SFITER_NATIVE_MARKER_FRAME ->
            <<~fSkippingFunclet /\ NOTIFY_ON_U2M_TRANSITIONS \in h.m_flags,
              [h EXCEPT !.m_forceReportingWhileSkipping =
                   IF @ = "LookForMarkerFrame" THEN "Off" ELSE @]>>
      [] h.m_frameState = SFITER_INITIAL_NATIVE_CONTEXT ->
            <<~fSkippingFunclet /\ NOTIFY_ON_INITIAL_NATIVE_CONTEXT \in h.m_flags, h>>))

\* the process does not run on: DoJITFailFast() or a failed _ASSERTE
Stopped(it) == it.failFast \/ it.asserted

\* StackFrameIterator::Filter: <<returned value, iterator>>
RECURSIVE Filter(_)
Filter(it) ==
    IF Stopped(it) \/ ~IsValid(it)
    THEN <<SWA_CONTINUE, IF Stopped(it) THEN it ELSE IsValidIter(it)>>
    ELSE With(FilterSwitch(IsValidIter(it)), LAMBDA d :
         IF d[1]
         THEN <<SWA_CONTINUE, d[2]>>
         ELSE With(NextRaw(d[2]), LAMBDA n :
              IF n[1] # SWA_CONTINUE THEN n ELSE Filter(n[2])))

\* StackFrameIterator::Init: <<returned value, iterator>>.  pRegDisp is the SP
\* of the captured context; Thread::GetFrame() is it.threadFrame.
Init(it, pFrame, pRegDisp, fl) ==
    IF FEATURE_EH_FUNCLETS /\ POPFRAMES \in fl
    THEN <<FALSE, AssertFails(it)>>
    ELSE
    With([ResetCrawlFrame([it EXCEPT !.m_frameState = SFITER_UNINITIALIZED, !.m_flags = fl])
              EXCEPT !.m_pStartFrame = pFrame,
                     !.pFrame = IF pFrame # NullAddr THEN pFrame ELSE it.threadFrame,
                     !.SP = pRegDisp,
                     !.ControlPC = ContextIP(pRegDisp),
                     !.m_pExInfo = IF ELIMINATE_FEF /\ exInfo # <<>> THEN 1 ELSE NullAddr],
         LAMBDA f :
    With(IF ELIMINATE_FEF THEN WalkToPosition(f, f.m_pStartFrame, FALSE) ELSE f, LAMBDA e :
    \* the captured context is not that of a fault (no CONTEXT_EXCEPTION_ACTIVE)
    With(Filter(ProcessCurrentFrame(ProcessIp(e, e.ControlPC))), LAMBDA flt :
    <<flt[1] = SWA_CONTINUE, flt[2]>>)))

\* StackFrameIterator::ResetRegDisp, the loop over the Frame chain: find the
\* closest explicit Frame that is not below the REGDISPLAY.  On x86 a Frame
\* above the SP whose return address is the PC of the REGDISPLAY (and whose
\* frame pointer is that of the REGDISPLAY: the same activation) is passed.
RECURSIVE ResetFrameLoop(_, _, _)
ResetFrameLoop(it, curSP, curPc) ==
    IF it.pFrame = FRAME_TOP
    THEN it
    ELSE LET atPc == curPc # NullAddr /\ ReturnAddress(it.pFrame) = curPc
         IN  IF it.pFrame >= curSP /\ (~TARGET_X86 \/ ~atPc)
             THEN it
             ELSE ResetFrameLoop(
                      GotoNextFrame(IF atPc
                                    THEN [UpdateRegDisplay(it) EXCEPT !.isFirst = FALSE,
                                                                      !.isInterrupted = FALSE]
                                    ELSE it),
                      curSP, curPc)

\* StackFrameIterator::ResetRegDisp after its ASSERT: <<returned value,
\* iterator>>.  pRegDisp is the SP of the new REGDISPLAY.
ResetRegDispTo(it, pRegDisp, fIsFirst) ==
    With(ProcessIp([ResetCrawlFrame([it EXCEPT !.m_frameState = SFITER_UNINITIALIZED])
                        EXCEPT !.isFirst = fIsFirst,
                               !.pFrame = IF it.m_pStartFrame # NullAddr
                                          THEN it.m_pStartFrame ELSE it.threadFrame,
                               !.SP = pRegDisp,
                               !.ControlPC = ContextIP(pRegDisp)],
                   ContextIP(pRegDisp)),
         LAMBDA p :
    With(ResetFrameLoop(p, IF PROCESS_EXPLICIT_FRAME_BEFORE_MANAGED_FRAME /\ p.isFrameless
                           THEN CallerSP(p.SP) ELSE p.SP,
                        p.ControlPC),
         LAMBDA f :
    With(IF ELIMINATE_FEF
         THEN WalkToPosition([f EXCEPT !.m_pExInfo = IF exInfo # <<>> THEN 1 ELSE NullAddr],
                             f.SP, FALSE)
         ELSE f,
         LAMBDA e :
    With(Filter(ProcessCurrentFrame(e)), LAMBDA flt :
    <<flt[1] = SWA_CONTINUE, flt[2]>>))))
\* StackFrameIterator::ResetRegDisp
ResetRegDisp_mut(it, pRegDisp, fIsFirst) == ResetRegDispTo(it, pRegDisp, fIsFirst)
ResetRegDisp(it, pRegDisp, fIsFirst) ==
    IF POPFRAMES \in it.m_flags
    THEN <<FALSE, AssertFails(it)>>
    ELSE ResetRegDispTo(it, pRegDisp, fIsFirst)

Next_mut(it) ==
    With(NextRaw(IsValidIter(it)), LAMBDA n :
         IF n[1] = SWA_CONTINUE THEN Filter(n[2]) ELSE n)
\* StackFrameIterator::Next: <<returned value, iterator>>
Next(it) ==
    IF ~IsValid(it)
    THEN <<SWA_FAILED, IsValidIter(it)>>
    ELSE With(NextRaw(IsValidIter(it)), LAMBDA n :
         IF n[1] = SWA_CONTINUE THEN Filter(n[2]) ELSE n)


(***************************************************************************)
(* Thread::StackWalkFramesEx and Thread::MakeStackwalkerCallback           *)
(***************************************************************************)
\* Thread::GetFrame() before any walk: the newest Frame of the chain
FirstFrame(s) == MinOf({i \in 1..Len(s) : IsFrame(s, i)} \cup {FRAME_TOP})

\* addresses of the GS cookies on the stack
Cookies == {a \in 1..Len(stk) : stk[a].gs}

\* what the callback is handed: the CrawlFrame as its accessors show it
Position(it) ==
    [ state |-> it.m_frameState,
      addr |-> CrawlAddr(it),
      isFrameless |-> it.isFrameless,
      pFunc |-> it.pFunc,
      skipParent |-> it.fShouldParentToFuncletSkipReportingGCReferences,
      report |-> it.fShouldCrawlframeReportGCReferences ]

\* history: the funclet parents the iterator is looking for at a callback
Tracking(it) == [sfParent |-> it.m_sfParent, sfFuncletParent |-> it.m_sfFuncletParent,
                 nonFilter |-> it.m_fProcessNonFilterFunclet,
                 force |-> it.m_forceReportingWhileSkipping]

\* where the driver goes when the process is still alive
Alive(it, l) == IF it.failFast THEN "failfast" ELSE IF it.asserted THEN "assert" ELSE l

\* StackWalkFramesEx: the ASSERTs about POPFRAMES
PopFramesAccepted_mut(fl) ==
    POPFRAMES \in fl =>
        /\ STACKWALKER_MAY_POP_FRAMES
        /\ caller.pCallback = "COMPlusUnwindCallback"
        /\ caller.pContextForUnwind
PopFramesAccepted(fl) ==
    POPFRAMES \in fl =>
        /\ STACKWALKER_MAY_POP_FRAMES
        /\ caller.pCallback = "COMPlusUnwindCallback"
        /\ caller.pContextForUnwind
        /\ caller.isThread /\ caller.PreemptiveGCDisabled

\* ---- the stack-walker indicator of the walking thread ----
\* "this" of StackWalkFramesEx, m_pThread of the iterator: the walked Thread
WalkedThread == "walked"

\* SET_THREAD_TYPE_STACKWALKER(pThread): t_pStackWalkerWalkingThread = pThread.
\* A DAC build has no such thread-local (pStackWalkThreadOrig is not even
\* declared there) and the macro does nothing.
SetThreadTypeStackWalker(pThread) ==
    t_pStackWalkerWalkingThread' =
        IF DACCESS_COMPILE THEN t_pStackWalkerWalkingThread ELSE pThread

\* CLEAR_THREAD_TYPE_STACKWALKER()
ClearThreadTypeStackWalker == SetThreadTypeStackWalker(NULL)

\* NextRaw with POPFRAMES: CLEAR_THREAD_TYPE_STACKWALKER(), ExceptionUnwind(),
\* SET_THREAD_TYPE_STACKWALKER(m_pThread), whenever it pops a Frame on the
\* way from the iterator to it2
ExceptionUnwindIndicator(it2) ==
    IF Len(it2.exceptionUnwinds) > Len(iter.exceptionUnwinds)
    THEN SetThreadTypeStackWalker(WalkedThread)
    ELSE UNCHANGED t_pStackWalkerWalkingThread

\* the walking thread is in no stack walk
NotWalking == t_pStackWalkerWalkingThread = NULL /\ pStackWalkThreadOrig = NULL

\* StackWalkFramesEx up to "if (iter.Init(...) == TRUE)"
StackWalkFramesEx_Init_mutContinue ==
    /\ wpc = "start"
    /\ \E r \in {IF PopFramesAccepted(flags)
                 THEN Init([CommonCtor EXCEPT !.threadFrame = iter.threadFrame,
                                         !.exUse = iter.exUse,
                                         !.exceptionUnwinds = iter.exceptionUnwinds,
                                         !.monitorsLeft = iter.monitorsLeft],
                      NullAddr, 1, flags)
                 ELSE <<FALSE, AssertFails(iter)>>} :
          /\ iter' = r[2]
          /\ wpc' = Alive(r[2], IF r[1] THEN "isvalid" ELSE "return")
    /\ retVal' = IF PopFramesAccepted(flags) THEN SWA_CONTINUE ELSE retVal
    /\ IF PopFramesAccepted(flags)
       THEN /\ pStackWalkThreadOrig' = IF DACCESS_COMPILE THEN pStackWalkThreadOrig
                                       ELSE t_pStackWalkerWalkingThread
            /\ SetThreadTypeStackWalker(WalkedThread)
       ELSE UNCHANGED walkerVars
    /\ log' = Append(log, "Init")
    /\ UNCHANGED <<caller, stk, target, exInfo, funcletParent, badCookies, unwindFault, flags,
                   swa, trace, start, prev>>
    /\ UNCHANGED <<osrVars, libVars>>
StackWalkFramesEx_Init ==
    /\ wpc = "start"
    /\ \E r \in {IF PopFramesAccepted(flags)
                 THEN Init([CommonCtor EXCEPT !.threadFrame = iter.threadFrame,
                                         !.exUse = iter.exUse,
                                         !.exceptionUnwinds = iter.exceptionUnwinds,
                                         !.monitorsLeft = iter.monitorsLeft],
                      NullAddr, 1, flags)
                 ELSE <<FALSE, AssertFails(iter)>>} :
          /\ iter' = r[2]
          /\ wpc' = Alive(r[2], IF r[1] THEN "isvalid" ELSE "return")
    /\ retVal' = IF PopFramesAccepted(flags) THEN SWA_FAILED ELSE retVal
    /\ IF PopFramesAccepted(flags)
       THEN /\ pStackWalkThreadOrig' = IF DACCESS_COMPILE THEN pStackWalkThreadOrig
                                       ELSE t_pStackWalkerWalkingThread
            /\ SetThreadTypeStackWalker(WalkedThread)
       ELSE UNCHANGED walkerVars
    /\ log' = Append(log, "Init")
    /\ UNCHANGED <<caller, stk, target, exInfo, funcletParent, badCookies, unwindFault, flags,
                   swa, trace, start, prev>>
    /\ UNCHANGED <<osrVars, libVars>>

\* while (iter.IsValid())
StackWalkFramesEx_IsValid ==
    /\ wpc = "isvalid"
    /\ iter' = IsValidIter(iter)
    /\ wpc' = IF IsValid(iter) THEN "precheck" ELSE "return"
    /\ UNCHANGED <<caller, stk, target, exInfo, funcletParent, badCookies, unwindFault, flags,
                   retVal, swa, trace, log, start, prev>>
    /\ UNCHANGED walkerVars
    /\ UNCHANGED <<osrVars, libVars>>

\* MakeStackwalkerCallback: pCF->CheckGSCookies() before the callback, then
\* CLEAR_THREAD_TYPE_STACKWALKER()
MakeStackwalkerCallback_PreCheck_mut ==
    /\ wpc = "precheck"
    /\ wpc' = "callback"
    /\ UNCHANGED <<caller, stk, target, exInfo, funcletParent, badCookies, unwindFault, flags,
                   iter, retVal, swa, trace, log, start, prev>>
    /\ ClearThreadTypeStackWalker
    /\ UNCHANGED pStackWalkThreadOrig
    /\ UNCHANGED <<osrVars, libVars>>
MakeStackwalkerCallback_PreCheck ==
    /\ wpc = "precheck"
    /\ iter' = CheckGSCookies(iter)
    /\ wpc' = Alive(iter', "callback")
    /\ log' = Append(log, "CheckGSCookies")
    /\ UNCHANGED <<caller, stk, target, exInfo, funcletParent, badCookies, unwindFault, flags,
                   retVal, swa, trace, start, prev>>
    /\ IF iter'.failFast THEN UNCHANGED t_pStackWalkerWalkingThread
       ELSE ClearThreadTypeStackWalker
    /\ UNCHANGED pStackWalkThreadOrig
    /\ UNCHANGED <<osrVars, libVars>>

\* the answers the callback may give at the k-th position: a second walk of
\* the same stack meets the same callback
Answers(k) ==
    IF prev # <<>> /\ k <= Len(prev.trace)
    THEN {prev.trace[k].swa}
    ELSE {SWA_CONTINUE, SWA_ABORT}

\* MakeStackwalkerCallback: swa = pCallback(pCF, pData), then
\* SET_THREAD_TYPE_STACKWALKER(this).  The callback runs arbitrary code: it
\* may overrun a buffer into one GS cookie.
MakeStackwalkerCallback_Callback ==
    /\ wpc = "callback"
    /\ \E a \in Answers(Len(trace) + 1) :
          /\ swa' = a
          /\ trace' = Append(trace, [pos |-> Position(iter), swa |-> a,
                                     track |-> Tracking(iter)])
    /\ \E c \in (IF badCookies = {} /\ prev = <<>> THEN Cookies ELSE {}) \cup {NullAddr} :
          badCookies' = IF c = NullAddr THEN badCookies ELSE badCookies \cup {c}
    /\ wpc' = "postcheck"
    /\ log' = Append(log, "pCallback")
    /\ UNCHANGED <<caller, stk, target, exInfo, funcletParent, unwindFault, flags, iter, retVal, start, prev>>
    /\ SetThreadTypeStackWalker(WalkedThread)
    /\ UNCHANGED pStackWalkThreadOrig
    /\ UNCHANGED <<osrVars, libVars>>

\* MakeStackwalkerCallback: pCF->CheckGSCookies() after the callback, return
\* swa; StackWalkFramesEx: retVal = ..., break on SWA_ABORT
MakeStackwalkerCallback_PostCheck_mut ==
    /\ wpc = "postcheck"
    /\ iter' = CheckGSCookies(iter)
    /\ log' = Append(log, "CheckGSCookies")
    /\ retVal' = IF iter'.failFast THEN retVal ELSE swa
    /\ wpc' = Alive(iter', "next")
    /\ UNCHANGED <<caller, stk, target, exInfo, funcletParent, badCookies, unwindFault, flags,
                   swa, trace, start, prev>>
    /\ UNCHANGED walkerVars
    /\ UNCHANGED <<osrVars, libVars>>
MakeStackwalkerCallback_PostCheck ==
    /\ wpc = "postcheck"
    /\ iter' = CheckGSCookies(iter)
    /\ log' = Append(log, "CheckGSCookies")
    /\ retVal' = IF iter'.failFast THEN retVal ELSE swa
    /\ wpc' = Alive(iter', IF swa = SWA_ABORT THEN "return" ELSE "next")
    /\ UNCHANGED <<caller, stk, target, exInfo, funcletParent, badCookies, unwindFault, flags,
                   swa, trace, start, prev>>
    /\ UNCHANGED walkerVars
    /\ UNCHANGED <<osrVars, libVars>>

\* retVal = iter.Next(); break on SWA_FAILED
StackWalkFramesEx_Next_mut ==
    /\ wpc = "next"
    /\ \E r \in {Next(iter)} :
          /\ iter' = r[2]
          /\ retVal' = IF Stopped(r[2]) THEN retVal ELSE r[1]
          /\ wpc' = Alive(r[2], "isvalid")
    /\ log' = Append(log, "Next")
    /\ UNCHANGED <<caller, stk, target, exInfo, funcletParent, badCookies, unwindFault, flags,
                   swa, trace, start, prev>>
    /\ ExceptionUnwindIndicator(iter')
    /\ UNCHANGED pStackWalkThreadOrig
    /\ UNCHANGED <<osrVars, libVars>>
StackWalkFramesEx_Next ==
    /\ wpc = "next"
    /\ \E r \in {Next(iter)} :
          /\ iter' = r[2]
          /\ retVal' = IF Stopped(r[2]) THEN retVal ELSE r[1]
          /\ wpc' = Alive(r[2], IF r[1] = SWA_FAILED THEN "return" ELSE "isvalid")
    /\ log' = Append(log, "Next")
    /\ UNCHANGED <<caller, stk, target, exInfo, funcletParent, badCookies, unwindFault, flags,
                   swa, trace, start, prev>>
    /\ ExceptionUnwindIndicator(iter')
    /\ UNCHANGED pStackWalkThreadOrig
    /\ UNCHANGED <<osrVars, libVars>>

\* SET_THREAD_TYPE_STACKWALKER(pStackWalkThreadOrig); return retVal
StackWalkFramesEx_Return_mut ==
    /\ wpc = "return"
    /\ wpc' = "done"
    /\ log' = Append(log, "return")
    /\ UNCHANGED <<caller, stk, target, exInfo, funcletParent, badCookies, unwindFault, flags,
                   iter, retVal, swa, trace, start, prev>>
    /\ ClearThreadTypeStackWalker
    /\ UNCHANGED pStackWalkThreadOrig
    /\ UNCHANGED <<osrVars, libVars>>
StackWalkFramesEx_Return ==
    /\ wpc = "return"
    /\ wpc' = "done"
    /\ log' = Append(log, "return")
    /\ UNCHANGED <<caller, stk, target, exInfo, funcletParent, badCookies, unwindFault, flags,
                   iter, retVal, swa, trace, start, prev>>
    /\ SetThreadTypeStackWalker(pStackWalkThreadOrig)
    /\ UNCHANGED pStackWalkThreadOrig
    /\ UNCHANGED <<osrVars, libVars>>

\* the thread's state a walk starts from
ThreadState == [pFrame |-> iter.threadFrame, exUse |-> iter.exUse, bad |-> badCookies,
                walker |-> t_pStackWalkerWalkingThread]

\* a caller walks the same thread once more, with the same arguments
Rewalk ==
    /\ wpc = "done"
    /\ prev = <<>>
    /\ prev' = [trace |-> trace, retVal |-> retVal, log |-> log, start |-> start]
    /\ start' = ThreadState
    /\ wpc' = "start"
    /\ trace' = <<>>
    /\ log' = <<>>
    /\ retVal' = "none"
    /\ swa' = "none"
    /\ UNCHANGED <<caller, stk, target, exInfo, funcletParent, badCookies, unwindFault, flags, iter>>
    /\ UNCHANGED walkerVars
    /\ UNCHANGED <<osrVars, libVars>>

\* ---- the walks that are checked ----
\* the ExInfo chain of an x86 thread: one CONTEXT for each managed frame that
\* faulted into native code, newest first
RECURSIVE ExChains(_)
ExChains(U) ==
    IF U = {} THEN {<<>>}
    ELSE {<<ExInfoRec(MinOf(U), e)>> \o c : e \in BOOLEAN, c \in ExChains(U \ {MinOf(U)})}

WalkItems ==
    {MItem("method", TRUE), MItem("method", FALSE), MItem("ilstub", FALSE), NItem}
    \cup {FItem(t) : t \in {"ICF_active", "ICF_inactive", "ToManaged", "Native"}}

FlagSets ==
    { {}, {FUNCTIONSONLY}, {HANDLESKIPPEDFRAMES}, {SKIP_GSCOOKIE_CHECK}, {POPFRAMES},
      {PROFILER_DO_STACK_SNAPSHOT},
      {NOTIFY_ON_U2M_TRANSITIONS, NOTIFY_ON_INITIAL_NATIVE_CONTEXT,
       NOTIFY_ON_NO_FRAME_TRANSITIONS} }

\* only a walk of a CONTEXT that may be bogus (a profiler's snapshot of a
\* running thread) can see an unwind go wrong
UnwindFaults ==
    {<<>>} \cup (IF PROFILER_DO_STACK_SNAPSHOT \in flags
                 THEN {<<sp, how>> : sp \in {a \in 1..Len(stk) : IsManaged(stk, a)},
                                     how \in {"fail", "oob", "under", "low"}}
                 ELSE {})

ParkedOSR ==
    /\ m_flags = [p \in Patchpoints |-> {}]
    /\ m_patchpointCount = [p \in Patchpoints |-> 0]
    /\ m_osrMethodCode = [p \in Patchpoints |-> NULL]
    /\ reached = [t \in Threads |-> {"P"}]
    /\ opc = [t \in Threads |-> "idle"]
    /\ ppInfo = [t \in Threads |-> NULL]
    /\ counter = [t \in Threads |-> OSR_CounterBump]
    /\ policy = [t \in Threads |-> "opt"]
    /\ oldFlags = [t \in Threads |-> {}]
    /\ newFlags = [t \in Threads |-> {}]
    /\ osrMethodCode = [t \in Threads |-> NULL]
    /\ hitCount = [t \in Threads |-> 0]
    /\ obtained = [t \in Threads |-> NULL]
    /\ frameContext = [t \in Threads |-> NoContext]
    /\ methodFrame = ThreadFramesOf(<<32, 0>>)
    /\ fatal = FALSE /\ jitCalls = <<>> /\ casWins = <<>>

\* the caller of StackWalkFramesEx: whether it is the walked thread
\* (this == GetThread()), whether it runs with preemptive GC disabled, its
\* callback, and whether pRD->pContextForUnwind is set
Caller(own, coop, cb, ctx) ==
    [isThread |-> own, PreemptiveGCDisabled |-> coop, pCallback |-> cb,
     pContextForUnwind |-> ctx]

\* exception handling unwinding its own thread
UnwindingCaller == Caller(TRUE, TRUE, "COMPlusUnwindCallback", TRUE)

InitDriver ==
    /\ badCookies = {}
    /\ iter = [CommonCtor EXCEPT !.threadFrame = FirstFrame(stk),
                                 !.exUse = IF ELIMINATE_FEF THEN DOMAIN exInfo ELSE {}]
    /\ wpc = "start" /\ retVal = "none" /\ swa = "none"
    /\ trace = <<>> /\ log = <<>> /\ prev = <<>>
    /\ start = ThreadState

InitWalk ==
    /\ ParkedOSR
    /\ ParkedLibs
    /\ stk \in Stacks(WalkItems)
    /\ target \in Targets
    /\ flags \in FlagSets
    /\ POPFRAMES \in flags => STACKWALKER_MAY_POP_FRAMES
    /\ exInfo \in (IF ELIMINATE_FEF THEN ExChains(Unlinked(stk)) ELSE {<<>>})
    /\ ELIMINATE_FEF \/ Unlinked(stk) = {}
    /\ funcletParent = <<>>
    /\ unwindFault \in UnwindFaults
    /\ caller = UnwindingCaller
    /\ NotWalking
    /\ InitDriver

NextWalk ==
    \/ StackWalkFramesEx_Init
    \/ StackWalkFramesEx_IsValid
    \/ MakeStackwalkerCallback_PreCheck
    \/ MakeStackwalkerCallback_Callback
    \/ MakeStackwalkerCallback_PostCheck
    \/ StackWalkFramesEx_Next
    \/ StackWalkFramesEx_Return
    \/ Rewalk

SpecWalk == InitWalk /\ [][NextWalk]_vars


(***************************************************************************)
(* Claims about the stack walker                                           *)
(***************************************************************************)
ManagedFrames == {a \in DOMAIN stk : stk[a].k = "M"}
ExplicitFrames == {a \in DOMAIN stk : stk[a].k = "F"}

\* the walk returned after the iterator ran off the root end of the stack,
\* with the callback never asking to stop
Completed ==
    /\ wpc = "done"
    /\ ~IsValid(iter)
    /\ retVal # SWA_FAILED
    /\ \A i \in DOMAIN trace : trace[i].swa = SWA_CONTINUE

\* active InlinedCallFrames the walk comes to along the Frame chain, from
\* native code: their managed frame is not the leaf and no Frame before them
\* returns to it
ReenteredFrames ==
    {a \in ExplicitFrames : /\ stk[a].t = "ICF_active"
                            /\ a > 2
                            /\ stk[a - 2].t # "ToManaged"}

\* the positions of the trace that are managed frames / explicit Frames
ManagedPositions == SelectSeq(trace, LAMBDA e : e.pos.state = SFITER_FRAMELESS_METHOD)
ExplicitPositions ==
    SelectSeq(trace, LAMBDA e : e.pos.state \in {SFITER_FRAME_FUNCTION,
                                                 SFITER_SKIPPED_FRAME_FUNCTION})
FramePositions ==
    SelectSeq(trace, LAMBDA e : e.pos.state \in {SFITER_FRAMELESS_METHOD,
                                                 SFITER_FRAME_FUNCTION,
                                                 SFITER_SKIPPED_FRAME_FUNCTION})

\* C3 as stated: a full unfiltered walk of a stack of N managed frames and M
\* explicit frames that runs to completion makes exactly N+M callbacks.
C3_Original_ExactlyNPlusM ==
    (Completed /\ flags = {}) =>
        Len(trace) = Cardinality(ManagedFrames) + Cardinality(ExplicitFrames)

\* C3: a full unfiltered walk that runs to completion calls back once for
\* every managed frame and once for every explicit frame, and once more for
\* every active InlinedCallFrame it reaches along the Frame chain from native
\* code: that Frame is surfaced as an explicit frame, is not advanced past,
\* and is surfaced again as a skipped frame of its managed frame.
C3_NPlusMPlusReentered ==
    (Completed /\ flags = {}) =>
        /\ Len(trace) = Cardinality(ManagedFrames) + Cardinality(ExplicitFrames)
                        + Cardinality(ReenteredFrames)
        /\ \A a \in ManagedFrames :
              Cardinality({i \in DOMAIN trace : trace[i].pos.isFrameless
                                                /\ trace[i].pos.addr = a}) = 1
        /\ \A a \in ExplicitFrames :
              Cardinality({i \in DOMAIN trace : ~trace[i].pos.isFrameless
                                                /\ trace[i].pos.addr = a})
                  = IF a \in ReenteredFrames THEN 2 ELSE 1

\* a completed unfiltered walk of a thread in native code whose managed caller
\* left an active InlinedCallFrame: the Frame was surfaced twice
C3_Witness_ReenteredFrame ==
    /\ Completed /\ flags = {}
    /\ ReenteredFrames # {}
    /\ Cardinality(ManagedFrames) >= 1
    /\ Len(trace) = Cardinality(ManagedFrames) + Cardinality(ExplicitFrames) + 1

C5_RewalkIdentical ==
    prev # <<>> =>
        /\ (POPFRAMES \notin flags /\ badCookies = {}) => start = prev.start
        /\ start = prev.start =>
              /\ wpc # "failfast"
              /\ Len(trace) <= Len(prev.trace)
              /\ \A i \in DOMAIN trace : trace[i] = prev.trace[i]
              /\ wpc = "done" => trace = prev.trace /\ retVal = prev.retVal

\* a second walk of a stack with managed and explicit frames has returned
C5_Witness_SecondWalkDone ==
    /\ prev # <<>> /\ wpc = "done" /\ start = prev.start
    /\ Len(ManagedPositions) >= 1 /\ Len(ExplicitPositions) >= 1
    /\ Len(trace) >= 3
    /\ trace = prev.trace

\* C6: when the callback returns SWA_ABORT at a position, the driver does not
\* advance the iterator, calls back for no later position, and
\* StackWalkFramesEx returns SWA_ABORT.
C6_AbortStopsWalk ==
    /\ \A i \in 1..(Len(trace) - 1) : trace[i].swa # SWA_ABORT
    /\ (trace # <<>> /\ trace[Len(trace)].swa = SWA_ABORT) =>
          /\ wpc \in {"postcheck", "return", "done", "failfast"}
          /\ Position(iter) = trace[Len(trace)].pos
          /\ \A j \in DOMAIN log :
                j > MaxOf({c \in DOMAIN log : log[c] = "pCallback"}) => log[j] # "Next"
          /\ wpc \in {"return", "done"} => retVal = SWA_ABORT

\* the callback aborted at the second of at least three positions and the
\* driver returned
C6_Witness_AbortAtSecond ==
    /\ wpc = "done" /\ prev = <<>>
    /\ Len(trace) = 2
    /\ trace[2].swa = SWA_ABORT
    /\ retVal = SWA_ABORT
    /\ IsValid(iter)
    /\ Cardinality(ManagedFrames) + Cardinality(ExplicitFrames) >= 3

\* addresses of the GS cookies of the managed frames surfaced so far
VisitedCookies == {trace[i].pos.addr : i \in {j \in DOMAIN trace :
                      trace[j].pos.isFrameless /\ stk[trace[j].pos.addr].gs}}

\* C9 as stated: a walk never returns a result when the GS cookie of a managed
\* frame it visited has been corrupted; it fail-fasts at the next check.
C9_Original_AnyVisitedCookie ==
    wpc \in {"next", "return", "done"} => VisitedCookies \cap badCookies = {}

\* the callbacks made for managed frames that have a GS cookie, in order
CookiePositions == SelectSeq(trace, LAMBDA e : e.pos.isFrameless /\ stk[e.pos.addr].gs)

\* C9: unless SKIP_GSCOOKIE_CHECK is set, a walk never advances or returns
\* after a guard check while the GS cookie of the first or of the latest
\* cookie-bearing managed frame it visited is corrupted: the check fail-fasts.
\* The cookies of the frames in between are not checked again.
C9_FirstAndCurrentCookie ==
    (SKIP_GSCOOKIE_CHECK \notin flags /\ CookiePositions # <<>>
     /\ wpc \in {"next", "return", "done", "isvalid", "precheck", "callback"}) =>
        /\ CookiePositions[1].pos.addr \notin badCookies
        /\ CookiePositions[Len(CookiePositions)].pos.addr \notin badCookies

\* the callback corrupted the cookie of the latest of two visited managed
\* frames with cookies, and the check after the callback stopped the process
C9_Witness_FailFast ==
    /\ wpc = "failfast"
    /\ Cardinality(VisitedCookies) = 2
    /\ badCookies = {MaxOf(VisitedCookies)}
    /\ log[Len(log)] = "CheckGSCookies" /\ log[Len(log) - 1] = "pCallback"

\* C10: around every callback the driver makes, the GS cookies are checked
\* immediately before the callback is called and immediately after it
\* returns, before the iterator is advanced or the result is returned.
C10_ChecksAroundCallback ==
    \A i \in DOMAIN log :
        log[i] = "pCallback" =>
            /\ i > 1 /\ log[i - 1] = "CheckGSCookies"
            /\ i < Len(log) => log[i + 1] = "CheckGSCookies"
            /\ i = Len(log) => wpc = "postcheck"

\* a callback was made between two checks and the iterator was then advanced
C10_Witness_CheckedThenAdvanced ==
    /\ Len(log) >= 5
    /\ log[Len(log)] = "Next"
    /\ log[Len(log) - 1] = "CheckGSCookies"
    /\ log[Len(log) - 2] = "pCallback"
    /\ log[Len(log) - 3] = "CheckGSCookies"

(***************************************************************************)
(* Walks for GC reference reporting (GC_FUNCLET_REFERENCE_REPORTING)       *)
(***************************************************************************)
GCItems ==
    {MItem("method", FALSE), MItem("funclet", FALSE), MItem("filter", FALSE),
     NItem, FItem("ToManaged")}

\* the funclets on the stack, and the managed frames a funclet can belong to
\* (a filter has no handlers of its own)
Funclets(s) == {a \in 1..Len(s) : IsManaged(s, a) /\ s[a].t \in {"funclet", "filter"}}
ParentsOf(s, f) == {p \in (f+1)..Len(s) : IsManaged(s, p) /\ s[p].t # "filter"}

\* every funclet was called on behalf of a managed frame above it
GCStacks == {s \in Stacks(GCItems) : Unlinked(s) = {} /\ \A f \in Funclets(s) : ParentsOf(s, f) # {}}

\* what ExInfo::FindParentStackFrameForStackWalk answers for each funclet: the
\* caller SP of the frame it belongs to
FuncletParents(s) ==
    {fp \in [Funclets(s) -> 2..(Len(s) + 1)] :
        \A f \in Funclets(s) : \E p \in ParentsOf(s, f) : fp[f] = NextRegion(s, p)}

\* the caller SPs of the managed frames above address a
CallerSPsAbove(s, a) == {NextRegion(s, p) : p \in {q \in (a+1)..Len(s) : IsManaged(s, q)}}

\* the exception in flight, if any.  Its tracker lies below the frames it
\* dispatches over; the first pass unwinds nothing; the second pass has unwound
\* a run lo..hi of them and knows the frame that handles the exception.
TrackersAt(s, a) ==
    {ExTracker(a, 1, NullAddr, FALSE, NullAddr, 1, 0)}
    \cup {ExTracker(a, 2, e, e # NullAddr, h, r[1], r[2]) :
             e \in {NullAddr} \cup CallerSPsAbove(s, a),
             h \in {NullAddr} \cup CallerSPsAbove(s, a),
             r \in {<<1, 0>>} \cup {q \in ((a+1)..Len(s)) \X ((a+1)..Len(s)) : q[1] <= q[2]}}

GCTrackers(s) == UNION {TrackersAt(s, a) : a \in 1..Len(s)}

InitGC ==
    /\ ParkedOSR
    /\ ParkedLibs
    /\ stk \in GCStacks
    /\ target = "amd64"
    /\ flags = {GC_FUNCLET_REFERENCE_REPORTING}
    /\ exInfo \in {<<>>} \cup {<<x>> : x \in GCTrackers(stk)}
    /\ funcletParent \in FuncletParents(stk)
    /\ unwindFault = <<>>
    /\ caller = UnwindingCaller
    /\ NotWalking
    /\ InitDriver

SpecGC == InitGC /\ [][NextWalk]_vars

(***************************************************************************)
(* Claims about GC reference reporting                                     *)
(***************************************************************************)
\* the managed frame a funclet belongs to
ParentFrame(f) == CHOOSE p \in ParentsOf(stk, f) : NextRegion(stk, p) = funcletParent[f]

\* the GC callback reports the references of the position it is handed unless
\* the position is marked as unwound or as a parent whose funclet reported
Reports(i) == trace[i].pos.report /\ ~trace[i].pos.skipParent

\* <<i, j>>: the i-th callback was for a non-filter funclet that the iterator
\* then tracks (no filter funclet is being processed, and the iterator is
\* looking for the parent of this funclet, to skip to it), and the j-th for
\* the frame that funclet belongs to
FuncletPairs ==
    {q \in (DOMAIN trace) \X (DOMAIN trace) :
        /\ trace[q[1]].pos.isFrameless /\ trace[q[2]].pos.isFrameless
        /\ stk[trace[q[1]].pos.addr].t = "funclet"
        /\ trace[q[1]].track.nonFilter
        /\ \A k \in 1..q[1] : stk[trace[k].pos.addr].t # "filter"
        /\ trace[q[1]].track.sfParent = funcletParent[trace[q[1]].pos.addr]
        /\ trace[q[1]].track.sfFuncletParent = funcletParent[trace[q[1]].pos.addr]
        /\ trace[q[2]].pos.addr = ParentFrame(trace[q[1]].pos.addr)}

\* the exception has unwound the frame at address a
Unwound(a) == \E i \in DOMAIN exInfo : exInfo[i].lo <= a /\ a <= exInfo[i].hi

\* the frame at address a is the one that handles the exception in flight
Handles(a) == exInfo # <<>> /\ exInfo[1].handler = NextRegion(stk, a)

\* the i-th callback is for the funclet the walk meets first of its method:
\* it is not marked as the parent of a funclet below it, and no callback
\* before it was for a funclet of the same parent
FirstOfParent(i) ==
    /\ ~trace[i].pos.skipParent
    /\ \A k \in 1..(i-1) :
          ~(/\ trace[k].pos.isFrameless
            /\ stk[trace[k].pos.addr].t = "funclet"
            /\ ParentFrame(trace[k].pos.addr) = ParentFrame(trace[i].pos.addr))

SeekingFilterParent ==
    /\ iter.m_sfFuncletParent # NullAddr
    /\ ~iter.m_fProcessNonFilterFunclet
    /\ ~iter.m_fProcessIntermediaryNonFilterFunclet
    /\ \E i \in DOMAIN trace :
          /\ trace[i].pos.isFrameless
          /\ stk[trace[i].pos.addr].t = "filter"
          /\ funcletParent[trace[i].pos.addr] = iter.m_sfFuncletParent

\* the funclet tracking of iterator it is that of a walk which has just
\* arrived at the frame it stands on: none, or for that frame as a funclet
TrackingReset(it) ==
    /\ ~it.m_fProcessIntermediaryNonFilterFunclet
    /\ it.m_sfIntermediaryFuncletParent = NullAddr
    /\ IF stk[it.SP].t \in {"funclet", "filter"}
       THEN /\ it.m_sfFuncletParent = funcletParent[it.SP]
            /\ it.m_fProcessNonFilterFunclet = (stk[it.SP].t = "funclet")
       ELSE /\ it.m_sfFuncletParent = NullAddr
            /\ it.m_sfParent = NullAddr
            /\ ~it.m_fProcessNonFilterFunclet

\* C8: in GC reporting mode, when Next brings the walk to the parent frame of
\* a filter funclet while no non-filter funclet is being processed, the parent
\* is the position of the next callback, it is not marked to skip reporting,
\* and the funclet tracking is reset.
C8_FilterParentReports ==
    [][ ( /\ wpc = "next" /\ SeekingFilterParent
          /\ iter'.m_frameState = SFITER_FRAMELESS_METHOD
          /\ NextRegion(stk, iter'.SP) = iter.m_sfFuncletParent )
        => /\ wpc' = "isvalid" /\ IsValid(iter')
           /\ ~iter'.fShouldParentToFuncletSkipReportingGCReferences
           /\ TrackingReset(iter') ]_vars

C8_Witness_FilterParentDelivered ==
    /\ wpc = "postcheck"
    /\ \E i \in 1..(Len(trace) - 1) :
          /\ trace[i].pos.isFrameless
          /\ stk[trace[i].pos.addr].t = "filter"
          /\ trace[Len(trace)].pos.isFrameless
          /\ trace[Len(trace)].pos.addr = ParentFrame(trace[i].pos.addr)
          /\ ~trace[Len(trace)].pos.skipParent
    /\ iter.m_sfFuncletParent = NullAddr


(***************************************************************************)
(* Walks that meet an unwind going wrong                                   *)
(***************************************************************************)
\* a profiler's snapshot, alone and restricted to functions, and a plain walk
SnapshotFlagSets ==
    { {PROFILER_DO_STACK_SNAPSHOT}, {PROFILER_DO_STACK_SNAPSHOT, FUNCTIONSONLY}, {} }

\* the unwind of one managed frame goes wrong.  A walk that is not speculative
\* starts from a valid CONTEXT: its unwind can fail, and an SP outside the
\* stack is what the _ASSERTE of FAIL_IF_SPECULATIVE_WALK guards against.
SnapshotFaults ==
    {<<sp, how>> : sp \in {a \in 1..Len(stk) : IsManaged(stk, a)},
                   how \in IF PROFILER_DO_STACK_SNAPSHOT \in flags
                           THEN {"fail", "oob", "under", "low"}
                           ELSE {"fail", "oob", "under"}}

\* the frames of the walked thread: managed methods with a GS cookie, IL
\* stubs, native code, and the Frames that lead back to managed code
SnapshotItems ==
    {MItem("method", TRUE), MItem("ilstub", FALSE), NItem,
     FItem("ICF_active"), FItem("ToManaged")}

InitSnapshot ==
    /\ ParkedOSR
    /\ ParkedLibs
    /\ stk \in Stacks(SnapshotItems)
    /\ target \in Targets
    /\ flags \in SnapshotFlagSets
    /\ exInfo \in (IF ELIMINATE_FEF THEN ExChains(Unlinked(stk)) ELSE {<<>>})
    /\ ELIMINATE_FEF \/ Unlinked(stk) = {}
    /\ funcletParent = <<>>
    /\ unwindFault \in SnapshotFaults
    /\ caller = UnwindingCaller
    /\ NotWalking
    /\ InitDriver

SpecSnapshot == InitSnapshot /\ [][NextWalk]_vars

\* the unwind the walk was set up to see go wrong has happened in this walk
FaultHappened(hows) ==
    /\ unwindFault # <<>> /\ unwindFault[2] \in hows
    /\ iter.unwindFaulted
    /\ wpc # "start"

\* what the driver did last, its return aside
LastStep == IF log[Len(log)] = "return" THEN log[Len(log) - 1] ELSE log[Len(log)]

\* C11: when ICodeManager::UnwindStackFrame fails while the iterator advances
\* from a managed frame, in Next or in the filtering of Init, the driver makes
\* no further callback and StackWalkFramesEx returns SWA_FAILED.
C11_UnwindFailureIsFailed ==
    FaultHappened({"fail"}) =>
        /\ wpc \in {"return", "done"}
        /\ retVal = SWA_FAILED
        /\ LastStep \in {"Init", "Next"}

\* a walk restricted to functions made one callback, skipped an IL stub, and
\* returned SWA_FAILED because the unwind of the stub failed
C11_Witness_FailedWhileFiltering ==
    /\ wpc = "done" /\ prev = <<>>
    /\ FaultHappened({"fail"})
    /\ stk[unwindFault[1]].t = "ilstub"
    /\ Len(trace) = 1
    /\ retVal = SWA_FAILED

PopTargets == {"amd64", "x86", "x86dac"}

PopFlagSets == { {}, {HANDLESKIPPEDFRAMES}, {POPFRAMES}, {POPFRAMES, HANDLESKIPPEDFRAMES} }

\* who calls StackWalkFramesEx: the unwinding thread itself as the second pass
\* of exception handling does, and callers that differ from it in one respect
\* or are another thread altogether
Callers ==
    { UnwindingCaller,
      Caller(FALSE, TRUE, "COMPlusUnwindCallback", TRUE),
      Caller(TRUE, FALSE, "COMPlusUnwindCallback", TRUE),
      Caller(TRUE, TRUE, "other", TRUE),
      Caller(TRUE, TRUE, "COMPlusUnwindCallback", FALSE),
      Caller(FALSE, FALSE, "other", FALSE) }

\* methods, among them synchronized ones inside their synchronized region,
\* native code and the Frames around it
PopItems ==
    {MItem("method", FALSE), MItem("synchronized", FALSE), NItem,
     FItem("ICF_active"), FItem("ToManaged"), FItem("Native")}

InitPop ==
    /\ ParkedOSR
    /\ ParkedLibs
    /\ stk \in Stacks(PopItems)
    /\ target \in PopTargets
    /\ flags \in PopFlagSets
    /\ exInfo \in (IF ELIMINATE_FEF THEN ExChains(Unlinked(stk)) ELSE {<<>>})
    /\ ELIMINATE_FEF \/ Unlinked(stk) = {}
    /\ funcletParent = <<>>
    /\ unwindFault = <<>>
    /\ caller \in Callers
    /\ NotWalking
    /\ InitDriver

\* a client of StackFrameIterator (the debugger's stackwalker does this, not
\* StackWalkFramesEx): it constructs an iterator and calls Init on it ...
Client_Init ==
    /\ wpc = "start" /\ prev = <<>>
    /\ \E r \in {Init([CommonCtor EXCEPT !.threadFrame = iter.threadFrame,
                                         !.exUse = iter.exUse,
                                         !.exceptionUnwinds = iter.exceptionUnwinds,
                                         !.monitorsLeft = iter.monitorsLeft],
                      NullAddr, 1, flags)} :
          /\ iter' = r[2]
          /\ wpc' = Alive(r[2], "client")
    /\ log' = Append(log, "Client_Init")
    /\ UNCHANGED <<caller, stk, target, exInfo, funcletParent, badCookies, unwindFault, flags,
                   swa, trace, start, prev, retVal>>
    /\ ExceptionUnwindIndicator(iter')
    /\ UNCHANGED pStackWalkThreadOrig
    /\ UNCHANGED <<osrVars, libVars>>

\* ... and later repositions it on the CONTEXT of one of the managed frames
Client_ResetRegDisp ==
    /\ wpc = "client"
    /\ \E sp \in {a \in 1..Len(stk) : IsManaged(stk, a)}, fIsFirst \in BOOLEAN :
       \E r \in {ResetRegDisp(iter, sp, fIsFirst)} :
          /\ iter' = r[2]
          /\ wpc' = Alive(r[2], "clientdone")
    /\ log' = Append(log, "Client_ResetRegDisp")
    /\ UNCHANGED <<caller, stk, target, exInfo, funcletParent, badCookies, unwindFault, flags,
                   swa, trace, start, prev, retVal>>
    /\ ExceptionUnwindIndicator(iter')
    /\ UNCHANGED pStackWalkThreadOrig
    /\ UNCHANGED <<osrVars, libVars>>

NextPop ==
    \/ NextWalk
    \/ Client_Init
    \/ Client_ResetRegDisp

SpecPop == InitPop /\ [][NextPop]_vars

\* C13: a walk without POPFRAMES leaves the walked thread as it was: no
\* Frame's ExceptionUnwind is called, no monitor is left, no ExInfo's
\* UseExInfoForStackwalk bit is reset and Thread::SetFrame is not called, so
\* the thread's Frame chain is the one the walk started with.
C13_ReadOnlyWithoutPopFrames ==
    POPFRAMES \notin flags =>
        /\ iter.exceptionUnwinds = <<>>
        /\ iter.monitorsLeft = <<>>
        /\ iter.exUse = start.exUse
        /\ iter.threadFrame = start.pFrame

\* on x86 a walk of another thread, without POPFRAMES, has passed a
\* synchronized method and explicit Frames, has finished, and nothing of the
\* thread has changed
C13_Witness_WalkedPastFramesUntouched ==
    /\ wpc = "done" /\ retVal \notin {SWA_FAILED, SWA_ABORT}
    /\ target = "x86" /\ POPFRAMES \notin flags
    /\ ~caller.isThread
    /\ \E i \in 1..Len(trace) : trace[i].pos.isFrameless
                                /\ stk[trace[i].pos.addr].t = "synchronized"
    /\ \E i \in 1..Len(trace) : ~trace[i].pos.isFrameless
    /\ iter.threadFrame = start.pFrame /\ start.pFrame # FRAME_TOP
    /\ iter.exceptionUnwinds = <<>> /\ iter.monitorsLeft = <<>>


\* the call made last stopped the process on an ASSERT
Rejected == wpc = "assert" /\ iter.asserted

\* the first thing done with the iterator
EnteredBy(what) == log # <<>> /\ log[1] = what

\* C14 as stated: StackWalkFramesEx accepts POPFRAMES only from the owning
\* thread in cooperative mode with COMPlusUnwindCallback and a context for
\* the unwind; on a build that may not pop frames both StackWalkFramesEx and
\* Init reject POPFRAMES; ResetRegDisp rejects it on every build.
C14_Original_InitRejectsWhereNoPop ==
    POPFRAMES \in flags =>
        /\ EnteredBy("Init") =>
               (~Rejected => STACKWALKER_MAY_POP_FRAMES /\ caller = UnwindingCaller)
        /\ ~STACKWALKER_MAY_POP_FRAMES /\ log # <<>> => Rejected /\ Len(log) = 1
        /\ "Client_ResetRegDisp" \in {log[i] : i \in 1..Len(log)} => Rejected

\* C14: StackWalkFramesEx accepts POPFRAMES only from the owning thread of the
\* walked stack, in cooperative mode, with COMPlusUnwindCallback and a context
\* for the unwind, and rejects it on a build that may not pop frames; Init
\* rejects POPFRAMES on a build with FEATURE_EH_FUNCLETS, and only there;
\* ResetRegDisp rejects it on every build.
C14_PopFramesPreconditions ==
    POPFRAMES \in flags =>
        /\ EnteredBy("Init") =>
               /\ ~Rejected <=> (STACKWALKER_MAY_POP_FRAMES /\ caller = UnwindingCaller)
               /\ Rejected => Len(log) = 1
        /\ EnteredBy("Client_Init") =>
               /\ Len(log) = 1 => (Rejected <=> FEATURE_EH_FUNCLETS)
               /\ Len(log) > 1 => ~FEATURE_EH_FUNCLETS
        /\ "Client_ResetRegDisp" \in {log[i] : i \in 1..Len(log)} => Rejected

\* the unwinding thread's POPFRAMES walk on x86 was accepted, popped a Frame
\* and ran to its end
C14_Witness_AcceptedAndPopped ==
    /\ POPFRAMES \in flags /\ target = "x86" /\ caller = UnwindingCaller
    /\ EnteredBy("Init") /\ wpc = "done"
    /\ iter.exceptionUnwinds # <<>>
    /\ iter.threadFrame # start.pFrame


\* the managed frame an explicit frame at address a is nested in: the frame
\* whose locals hold it (NullAddr for a Frame of native code)
ContainingFrame(a) ==
    IF IsFrame(stk, a) /\ IsManaged(stk, RegionOf(stk, a)) THEN RegionOf(stk, a) ELSE NullAddr

\* the callbacks for the managed frame at SP m
DeliveriesOf(m) ==
    {j \in 1..Len(trace) : /\ trace[j].pos.state = SFITER_FRAMELESS_METHOD
                           /\ trace[j].pos.addr = m}

C24_Witness_SkippedThenManaged ==
    /\ PROCESS_EXPLICIT_FRAME_BEFORE_MANAGED_FRAME
    /\ \E i \in 1..(Len(trace) - 1) :
          /\ trace[i].pos.state = SFITER_SKIPPED_FRAME_FUNCTION
          /\ i + 1 \in DeliveriesOf(ContainingFrame(trace[i].pos.addr))

FrameStates == {SFITER_FRAMELESS_METHOD, SFITER_FRAME_FUNCTION, SFITER_SKIPPED_FRAME_FUNCTION}

\* the callbacks for the frame at address a
CallbacksFor(a) ==
    {i \in DOMAIN trace : trace[i].pos.state \in FrameStates /\ trace[i].pos.addr = a}

\* the iterator of a GC walk where Init hands it to Filter
GCWalkStart ==
    With([ResetCrawlFrame([CommonCtor EXCEPT !.threadFrame = FirstFrame(stk),
                                             !.m_frameState = SFITER_UNINITIALIZED,
                                             !.m_flags = flags])
              EXCEPT !.pFrame = FirstFrame(stk), !.SP = 1, !.ControlPC = ContextIP(1)],
         LAMBDA f : ProcessCurrentFrame(ProcessIp(f, f.ControlPC)))

\* the explicit frames at which Filter finds the walk skipping to a funclet's
\* parent (m_sfParent set at the head of the loop), in a walk from position it
\* on whose callbacks all continue
RECURSIVE SkippedWhileSeekingParent(_)
SkippedWhileSeekingParent(it) ==
    IF Stopped(it) \/ ~IsValid(it)
    THEN {}
    ELSE LET v == IsValidIter(it)
             n == NextRaw(FilterSwitch(v)[2])
         IN  (IF /\ v.m_frameState \in {SFITER_FRAME_FUNCTION, SFITER_SKIPPED_FRAME_FUNCTION}
                 /\ FilterLoopHead(v).m_sfParent # NullAddr
              THEN {v.pFrame} ELSE {})
             \cup (IF n[1] = SWA_CONTINUE THEN SkippedWhileSeekingParent(n[2]) ELSE {})

QuietFunclets ==
    {i \in DOMAIN trace : /\ trace[i].pos.state = SFITER_FRAMELESS_METHOD
                          /\ stk[trace[i].pos.addr].t = "funclet"
                          /\ trace[i].track.force = "Off"}

\* those of them whose parent the iterator is looking for at the callback
\* (m_sfParent holds that funclet's parent)
SoughtFunclets ==
    {i \in QuietFunclets : trace[i].track.sfParent = funcletParent[trace[i].pos.addr]}

RECURSIVE PastSkippedFrames(_)
PastSkippedFrames(it) ==
    IF it.m_frameState = SFITER_SKIPPED_FRAME_FUNCTION /\ ~Stopped(it)
    THEN PastSkippedFrames(NextRaw(it)[2])
    ELSE it

\* the iterator stands on a position of a walk that goes on
AtPosition == wpc # "start" /\ IsValid(iter) /\ ~Stopped(iter)

\* NextRaw from the position of the iterator succeeds
Advances == AtPosition /\ NextRaw(iter)[1] = SWA_CONTINUE /\ ~Stopped(NextRaw(iter)[2])

\* C27 as stated: after a successful unwind from a managed frame NextRaw
\* comes to a managed frame again, possibly by way of skipped explicit
\* frames, when the new PC is in managed code, and to the native marker with
\* isNativeMarker set when it is not; from the native marker NextRaw clears
\* isNativeMarker and comes to an explicit frame or to the end of the walk.
C27_Original_NativeElseMarker ==
    Advances =>
        LET n == NextRaw(iter)[2]
        IN  /\ iter.m_frameState = SFITER_FRAMELESS_METHOD =>
                  IF IsManagedCode(n.ControlPC)
                  THEN /\ n.m_frameState \in {SFITER_FRAMELESS_METHOD,
                                              SFITER_SKIPPED_FRAME_FUNCTION}
                       /\ ~Stopped(PastSkippedFrames(n)) =>
                              PastSkippedFrames(n).m_frameState = SFITER_FRAMELESS_METHOD
                  ELSE n.m_frameState = SFITER_NATIVE_MARKER_FRAME /\ n.isNativeMarker
            /\ iter.m_frameState = SFITER_NATIVE_MARKER_FRAME =>
                  /\ ~n.isNativeMarker
                  /\ n.m_frameState \in {SFITER_FRAME_FUNCTION, SFITER_DONE}

\* n is where NextRaw came to after the unwind of a managed frame, e where it
\* is once the skipped explicit frames have been left
AfterUnwind(n, e) ==
    /\ n.m_frameState \in {SFITER_FRAMELESS_METHOD, SFITER_SKIPPED_FRAME_FUNCTION,
                           SFITER_NATIVE_MARKER_FRAME}
    /\ n.m_frameState = SFITER_SKIPPED_FRAME_FUNCTION =>
          /\ n.SP = e.SP \/ Stopped(e)
          /\ IsManagedCode(n.ControlPC) \/ ~PROCESS_EXPLICIT_FRAME_BEFORE_MANAGED_FRAME
    /\ ~Stopped(e) =>
          IF IsManagedCode(n.ControlPC)
          THEN e.m_frameState = SFITER_FRAMELESS_METHOD /\ e.SP = n.ControlPC
          ELSE e.m_frameState = SFITER_NATIVE_MARKER_FRAME /\ e.isNativeMarker

\* n is where NextRaw came to from the native marker
AfterMarker(n) ==
    /\ ~n.isNativeMarker
    /\ n.m_frameState \in
          {SFITER_FRAME_FUNCTION, SFITER_DONE}
          \cup (IF ELIMINATE_FEF /\ exInfo # <<>>
                THEN {SFITER_NO_FRAME_TRANSITION, SFITER_FRAMELESS_METHOD}
                ELSE {})

\* C27: after a successful unwind from a managed frame NextRaw comes to the
\* managed frame of the new PC when that is in managed code and to the native
\* marker with isNativeMarker set when it is not, in both cases by way of the
\* skipped explicit frames there may be: where explicit frames are processed
\* first these are the ones nested in the managed frame come to (so there are
\* none before a native marker), on x86 the ones nested in the frame left.
\* From the native marker NextRaw clears isNativeMarker and comes to an
\* explicit frame or to the end of the walk, or, on x86 with the CONTEXT of an
\* ExInfo below the next Frame, to the no-frame transition marker or to the
\* managed frame of that CONTEXT.
C27_AfterUnwindAndAfterMarker ==
    (AtPosition /\ iter.m_frameState \in {SFITER_FRAMELESS_METHOD,
                                          SFITER_NATIVE_MARKER_FRAME}) =>
        With(NextRaw(iter), LAMBDA r :
            (r[1] = SWA_CONTINUE /\ ~Stopped(r[2])) =>
                IF iter.m_frameState = SFITER_FRAMELESS_METHOD
                THEN With(PastSkippedFrames(r[2]), LAMBDA e : AfterUnwind(r[2], e))
                ELSE AfterMarker(r[2]))

\* the walk was handed a managed frame and then the native marker NextRaw
\* came to from it, and the next NextRaw leaves the marker for an explicit frame
C27_Witness_AtNativeMarker ==
    /\ Advances
    /\ iter.m_frameState = SFITER_NATIVE_MARKER_FRAME /\ iter.isNativeMarker
    /\ trace # <<>> /\ trace[Len(trace)].pos.state = SFITER_FRAMELESS_METHOD
    /\ NextRaw(iter)[2].m_frameState = SFITER_FRAME_FUNCTION
    /\ ~NextRaw(iter)[2].isNativeMarker


(***************************************************************************)
(* Walks under each combination of the notification flags                  *)
(***************************************************************************)
NotifyFlags == {NOTIFY_ON_U2M_TRANSITIONS, NOTIFY_ON_INITIAL_NATIVE_CONTEXT,
                NOTIFY_ON_NO_FRAME_TRANSITIONS}

NotifyItems == {MItem("method", FALSE), NItem, FItem("ToManaged"), FItem("Native")}

InitNotify ==
    /\ ParkedOSR
    /\ ParkedLibs
    /\ stk \in Stacks(NotifyItems)
    /\ target \in Targets
    /\ flags \in SUBSET NotifyFlags
    /\ exInfo \in (IF ELIMINATE_FEF THEN ExChains(Unlinked(stk)) ELSE {<<>>})
    /\ ELIMINATE_FEF \/ Unlinked(stk) = {}
    /\ funcletParent = <<>>
    /\ unwindFault = <<>>
    /\ caller = UnwindingCaller
    /\ NotWalking
    /\ InitDriver

SpecNotify == InitNotify /\ [][NextWalk]_vars

\* the flag a marker position needs to get a callback
NotifyFlagOf(state) ==
    CASE state = SFITER_NATIVE_MARKER_FRAME -> NOTIFY_ON_U2M_TRANSITIONS
      [] state = SFITER_INITIAL_NATIVE_CONTEXT -> NOTIFY_ON_INITIAL_NATIVE_CONTEXT
      [] state = SFITER_NO_FRAME_TRANSITION -> NOTIFY_ON_NO_FRAME_TRANSITIONS

MarkerStates == {SFITER_NATIVE_MARKER_FRAME, SFITER_INITIAL_NATIVE_CONTEXT,
                 SFITER_NO_FRAME_TRANSITION}

\* C28: a marker position gets a callback only when its own notification flag
\* is set (the native marker NOTIFY_ON_U2M_TRANSITIONS, the initial native
\* context NOTIFY_ON_INITIAL_NATIVE_CONTEXT, the no-frame transition
\* NOTIFY_ON_NO_FRAME_TRANSITIONS); without the flag Init and Next never leave
\* the iterator standing on the marker, and NextRaw from a position reaches
\* the marker that Next from the same position has gone past.
C28_MarkersOnlyWithTheirFlag ==
    /\ \A i \in DOMAIN trace :
          trace[i].pos.state \in MarkerStates =>
              NotifyFlagOf(trace[i].pos.state) \in flags
    /\ (AtPosition /\ iter.m_frameState \in MarkerStates) =>
          NotifyFlagOf(iter.m_frameState) \in flags
    /\ AtPosition =>
          With(NextRaw(iter), LAMBDA r :
              (/\ r[1] = SWA_CONTINUE /\ ~Stopped(r[2])
               /\ r[2].m_frameState \in MarkerStates
               /\ NotifyFlagOf(r[2].m_frameState) \notin flags) =>
                  With(Next(iter), LAMBDA n :
                      /\ n = Filter(NextRaw(r[2])[2])
                      /\ (n[1] = SWA_CONTINUE /\ IsValid(n[2]) /\ ~Stopped(n[2])) =>
                            /\ n[2].m_frameState # r[2].m_frameState
                               \/ CrawlAddr(n[2]) # CrawlAddr(r[2])
                               \/ n[2].SP # r[2].SP))

\* a walk with NOTIFY_ON_INITIAL_NATIVE_CONTEXT alone got a callback for the
\* initial native context, and has gone past a native marker without one
C28_Witness_OneFlagOneMarker ==
    /\ flags = {NOTIFY_ON_INITIAL_NATIVE_CONTEXT}
    /\ Completed
    /\ trace # <<>> /\ trace[1].pos.state = SFITER_INITIAL_NATIVE_CONTEXT
    /\ \E i \in DOMAIN trace : trace[i].pos.state = SFITER_FRAMELESS_METHOD
    /\ \A i \in DOMAIN trace : trace[i].pos.state # SFITER_NATIVE_MARKER_FRAME


C29_Witness_FrameWithoutMethodLeftOut ==
    /\ FUNCTIONSONLY \in flags /\ Completed /\ trace # <<>>
    /\ \E a \in ExplicitFrames : GetFunction(a) = NullAddr /\ CallbacksFor(a) = {}


(***************************************************************************)
(* A client that drives the iterator itself, past the end of the walk      *)
(***************************************************************************)
\* the client has called Next on an invalid iterator twice in a row
CalledPastEndTwice ==
    /\ Len(log) >= 2
    /\ log[Len(log)] = "Client_NextInvalid"
    /\ log[Len(log) - 1] = "Client_NextInvalid"

\* the client calls Next, whether or not IsValid() holds
Client_Next ==
    /\ wpc = "client"
    /\ ~CalledPastEndTwice
    /\ \E r \in {Next(iter)} :
          /\ iter' = r[2]
          /\ retVal' = r[1]
          /\ wpc' = Alive(r[2], "client")
    /\ log' = Append(log, IF IsValid(iter) THEN "Client_Next" ELSE "Client_NextInvalid")
    /\ UNCHANGED <<caller, stk, target, exInfo, funcletParent, badCookies, unwindFault, flags,
                   swa, trace, start, prev>>
    /\ ExceptionUnwindIndicator(iter')
    /\ UNCHANGED pStackWalkThreadOrig
    /\ UNCHANGED <<osrVars, libVars>>

ClientFlagSets == { {}, {FUNCTIONSONLY}, NotifyFlags }

InitClient ==
    /\ ParkedOSR
    /\ ParkedLibs
    /\ stk \in Stacks(WalkItems)
    /\ target \in Targets
    /\ flags \in ClientFlagSets
    /\ exInfo \in (IF ELIMINATE_FEF THEN ExChains(Unlinked(stk)) ELSE {<<>>})
    /\ ELIMINATE_FEF \/ Unlinked(stk) = {}
    /\ funcletParent = <<>>
    /\ unwindFault = <<>>
    /\ caller = UnwindingCaller
    /\ NotWalking
    /\ InitDriver

NextClient ==
    \/ Client_Init
    \/ Client_Next

SpecClient == InitClient /\ [][NextClient]_vars

\* C30: Next on an invalid iterator returns SWA_FAILED and leaves the iterator
\* as it is, hence invalid; Next that takes the iterator from a valid position
\* to the invalid end state returns SWA_CONTINUE, which is SWA_DONE.
C30_NextAtAndPastTheEnd ==
    [][(wpc = "client" /\ log' # log) =>
           /\ ~IsValid(iter) =>
                 /\ retVal' = SWA_FAILED
                 /\ iter' = iter
                 /\ ~IsValid(iter')
           /\ (IsValid(iter) /\ ~Stopped(iter') /\ ~IsValid(iter')) =>
                 /\ retVal' = SWA_CONTINUE
                 /\ retVal' = SWA_DONE
                 /\ iter'.m_frameState = SFITER_DONE
      ]_vars

\* the client walked a stack with a managed frame to the end and called Next
\* twice more: both calls failed and the iterator is still invalid
C30_Witness_CalledPastEnd ==
    /\ CalledPastEndTwice
    /\ \E i \in DOMAIN log : log[i] = "Client_Next"
    /\ ManagedFrames # {}
    /\ retVal = SWA_FAILED /\ ~IsValid(iter)
    /\ iter.m_frameState = SFITER_DONE

(***************************************************************************)
(* Popping Frames off the thread's chain                                   *)
(***************************************************************************)
\* the Frames that have been unlinked from the thread's chain: those below
\* its present head (a second walk of the thread begins at that head)
UnlinkedFrames == {a \in 1..Len(stk) : IsFrame(stk, a) /\ a < iter.threadFrame}

\* the Frames that got ExceptionUnwind()
ExceptionUnwound == {iter.exceptionUnwinds[i] : i \in 1..Len(iter.exceptionUnwinds)}

\* the walk is that of StackWalkFramesEx and has passed Init
InWalk == EnteredBy("Init") /\ ~Rejected /\ wpc \notin {"start", "failfast"}

\* C31 as stated: with POPFRAMES every Frame the walk unlinks from the
\* thread's chain has had ExceptionUnwind() called on it, and once a Frame is
\* unlinked the head of the thread's chain is the iterator's current Frame.
C31_Original_EveryUnlinkedFrameUnwound ==
    POPFRAMES \in flags /\ InWalk =>
        /\ UnlinkedFrames \subseteq ExceptionUnwound
        /\ UnlinkedFrames # {} => iter.threadFrame = iter.pFrame


\* C31: with POPFRAMES every Frame the walk unlinks from the thread's chain
\* has had ExceptionUnwind() called on it, except the Frames nested in a
\* managed frame that a walk with HANDLESKIPPEDFRAMES advances past silently:
\* those are unlinked without ExceptionUnwind().  Only unlinked Frames get
\* ExceptionUnwind(), and once a Frame is unlinked the head of the thread's
\* chain is the iterator's current Frame.
C31_UnlinkedUnwoundUnlessSkippedSilently ==
    POPFRAMES \in flags /\ InWalk =>
        /\ \A a \in UnlinkedFrames \ ExceptionUnwound :
               HANDLESKIPPEDFRAMES \in flags /\ ContainingFrame(a) # NullAddr
        /\ ExceptionUnwound \subseteq UnlinkedFrames
        /\ UnlinkedFrames # {} => iter.threadFrame = iter.pFrame

\* a POPFRAMES walk on x86 surfaced a Frame nested in a managed frame as a
\* skipped Frame, called its ExceptionUnwind(), unlinked it and ran to its end
C31_Witness_SkippedFramePopped ==
    /\ POPFRAMES \in flags /\ HANDLESKIPPEDFRAMES \notin flags
    /\ InWalk /\ wpc = "done"
    /\ \E i \in 1..Len(trace) :
          /\ trace[i].pos.state = SFITER_SKIPPED_FRAME_FUNCTION
          /\ trace[i].pos.addr \in UnlinkedFrames \cap ExceptionUnwound
    /\ iter.threadFrame = iter.pFrame

(***************************************************************************)
(* Explicit frames nested in a managed frame                               *)
(***************************************************************************)
\* CheckForSkippedFrames' loop condition at the position of it: its current
\* Frame lies below the reference stack pointer
FrameBelowReferenceSP(it) ==
    /\ it.pFrame # FRAME_TOP
    /\ it.pFrame < (IF PROCESS_EXPLICIT_FRAME_BEFORE_MANAGED_FRAME
                    THEN CallerSP(it.SP) ELSE it.SP)

C32_Witness_AdvancedPastSilently ==
    /\ AtPosition /\ retVal # SWA_FAILED
    /\ HANDLESKIPPEDFRAMES \in flags
    /\ PROCESS_EXPLICIT_FRAME_BEFORE_MANAGED_FRAME
    /\ iter.m_frameState = SFITER_FRAMELESS_METHOD
    /\ IsFrame(stk, iter.SP + 1) /\ iter.pFrame > iter.SP + 1
    /\ \A i \in 1..Len(trace) : trace[i].pos.addr # iter.SP + 1

(***************************************************************************)
(* The stack-walker indicator of the walking thread                        *)
(***************************************************************************)
\* a thread whose own stack walk a hijacking profiler interrupted
HijackedWalk == "hijacked"

\* the indicator when StackWalkFramesEx is entered: not set, unless a profiler
\* that takes stack snapshots redirected the thread in the middle of another
\* walk (the one case the _ASSERTE at the head of StackWalkFramesEx lets pass)
EntryIndicators ==
    IF PROFILER_DO_STACK_SNAPSHOT \in flags /\ ~DACCESS_COMPILE
    THEN {NULL, HijackedWalk} ELSE {NULL}

IndicatorItems == {MItem("method", FALSE), NItem, FItem("ICF_active"), FItem("Native")}

IndicatorFlagSets == { {}, {POPFRAMES}, {PROFILER_DO_STACK_SNAPSHOT} }

InitIndicator ==
    /\ ParkedOSR
    /\ ParkedLibs
    /\ stk \in Stacks(IndicatorItems)
    /\ target \in PopTargets
    /\ flags \in IndicatorFlagSets
    /\ POPFRAMES \in flags => STACKWALKER_MAY_POP_FRAMES
    /\ exInfo \in (IF ELIMINATE_FEF THEN ExChains(Unlinked(stk)) ELSE {<<>>})
    /\ ELIMINATE_FEF \/ Unlinked(stk) = {}
    /\ funcletParent = <<>>
    /\ unwindFault \in UnwindFaults
    /\ caller = UnwindingCaller
    /\ t_pStackWalkerWalkingThread \in EntryIndicators
    /\ pStackWalkThreadOrig = NULL
    /\ InitDriver

SpecIndicator == InitIndicator /\ [][NextWalk]_vars

\* C33: in a build that has the indicator, it is clear while the callback
\* runs, it names the walked thread again once the callback has returned, and
\* when StackWalkFramesEx has returned, be it done, aborted or failed, it has
\* the value it had on entry.  A DAC build never writes it.
C33_IndicatorAroundCallbackAndWalk ==
    EnteredBy("Init") =>
        /\ ~DACCESS_COMPILE =>
               /\ wpc = "callback" => t_pStackWalkerWalkingThread = NULL
               /\ wpc \in {"postcheck", "next", "isvalid", "precheck"} =>
                      t_pStackWalkerWalkingThread = WalkedThread
        /\ wpc = "done" => t_pStackWalkerWalkingThread = start.walker
        /\ DACCESS_COMPILE => t_pStackWalkerWalkingThread = start.walker

\* a walk entered by a thread that was in another walk has failed after a
\* callback and has returned: the indicator names the interrupted walk again
C33_Witness_FailedWalkRestored ==
    /\ EnteredBy("Init") /\ wpc = "done"
    /\ retVal = SWA_FAILED /\ Len(trace) >= 1
    /\ start.walker = HijackedWalk
    /\ t_pStackWalkerWalkingThread = HijackedWalk

\* the callback of a walk with POPFRAMES is running after a Frame was popped
C33_Witness_InCallbackAfterPop ==
    /\ EnteredBy("Init") /\ wpc = "callback"
    /\ iter.exceptionUnwinds # <<>>
    /\ t_pStackWalkerWalkingThread = NULL

(***************************************************************************)
(* Part III: hosting (vm/corhost.cpp)                                      *)
(* Threads call Start() and Stop() on the CorHost2 objects of the process, *)
(* one step per access to memory that another call can read or write.      *)
(***************************************************************************)
\* calls one thread makes
MaxCalls == 2

S_OK == "S_OK"
S_FALSE == "S_FALSE"
E_FAIL == "E_FAIL"
E_UNEXPECTED == "E_UNEXPECTED"
HOST_E_INVALIDOPERATION == "HOST_E_INVALIDOPERATION"
HOST_E_CLRNOTAVAILABLE == "HOST_E_CLRNOTAVAILABLE"

SUCCEEDED(h) == h \in {S_OK, S_FALSE}

HostGoto(t, l) == hostPc' = [hostPc EXCEPT ![t] = l]

HostFrame == UNCHANGED <<osrVars, walkVars, dumpVars>>

\* a host calls Start() on thread t
Start_Call(t) ==
    /\ hostPc[t] = "idle" /\ hostCalls[t] < MaxCalls
    /\ \E h \in Hosts : pHost' = [pHost EXCEPT ![t] = h]
    /\ hostCalls' = [hostCalls EXCEPT ![t] = @ + 1]
    /\ callDelta' = [callDelta EXCEPT ![t] = 0]
    /\ hr' = [hr EXCEPT ![t] = "none"]
    /\ HostGoto(t, "Start_lock")
    /\ UNCHANGED <<g_fEEStarted, m_RefCount, lockOnlyOneToInvokeStart, m_fStarted,
                   m_fFirstToLoadCLR, refCount, started, stopped>>
    /\ HostFrame

\* DangerousNonHostedSpinLockHolder lockHolder(&lockOnlyOneToInvokeStart);
\* if (g_fEEStarted): only a holder of the lock writes g_fEEStarted
Start_Lock(t) ==
    /\ hostPc[t] = "Start_lock"
    /\ lockOnlyOneToInvokeStart = 0
    /\ lockOnlyOneToInvokeStart' = t
    /\ hr' = [hr EXCEPT ![t] = IF g_fEEStarted THEN S_OK ELSE @]
    /\ HostGoto(t, IF g_fEEStarted THEN "Start_started" ELSE "Start_ensure")
    /\ UNCHANGED <<g_fEEStarted, m_RefCount, m_fStarted, m_fFirstToLoadCLR, pHost, refCount,
                   hostCalls, callDelta, started, stopped>>
    /\ HostFrame

\* if (m_fStarted) hr = HOST_E_INVALIDOPERATION;
Start_CheckStarted_mut(t) ==
    /\ hostPc[t] = "Start_started"
    /\ HostGoto(t, "Start_increment")
    /\ UNCHANGED <<g_fEEStarted, m_RefCount, lockOnlyOneToInvokeStart, m_fStarted,
                   m_fFirstToLoadCLR, pHost, hr, refCount, hostCalls, callDelta, started,
                   stopped>>
    /\ HostFrame
Start_CheckStarted(t) ==
    /\ hostPc[t] = "Start_started"
    /\ hr' = [hr EXCEPT ![t] = IF m_fStarted[pHost[t]] THEN HOST_E_INVALIDOPERATION ELSE @]
    /\ HostGoto(t, IF m_fStarted[pHost[t]] THEN "Start_unlock" ELSE "Start_increment")
    /\ UNCHANGED <<g_fEEStarted, m_RefCount, lockOnlyOneToInvokeStart, m_fStarted,
                   m_fFirstToLoadCLR, pHost, refCount, hostCalls, callDelta, started, stopped>>
    /\ HostFrame

\* InterlockedIncrement(&m_RefCount), in either branch
Start_Increment(t) ==
    /\ hostPc[t] \in {"Start_increment", "Start_incrementFirst"}
    /\ m_RefCount' = m_RefCount + 1
    /\ callDelta' = [callDelta EXCEPT ![t] = @ + 1]
    /\ started' = [started EXCEPT ![pHost[t]] = @ + 1]
    /\ HostGoto(t, IF hostPc[t] = "Start_increment" THEN "Start_setStarted" ELSE "Start_unlock")
    /\ UNCHANGED <<g_fEEStarted, lockOnlyOneToInvokeStart, m_fStarted, m_fFirstToLoadCLR,
                   pHost, hr, refCount, hostCalls, stopped>>
    /\ HostFrame

\* m_fStarted = TRUE, in either branch
Start_SetStarted(t) ==
    /\ hostPc[t] \in {"Start_setStarted", "Start_setStartedFirst"}
    /\ m_fStarted' = [m_fStarted EXCEPT ![pHost[t]] = TRUE]
    /\ HostGoto(t, IF hostPc[t] = "Start_setStarted" THEN "Start_unlock" ELSE "Start_setFirst")
    /\ UNCHANGED <<g_fEEStarted, m_RefCount, lockOnlyOneToInvokeStart, m_fFirstToLoadCLR,
                   pHost, hr, refCount, hostCalls, callDelta, started, stopped>>
    /\ HostFrame

\* hr = EnsureEEStarted(): it starts the execution engine or fails
Start_EnsureEEStarted(t) ==
    /\ hostPc[t] = "Start_ensure"
    /\ \E ok \in BOOLEAN :
          /\ g_fEEStarted' = ok
          /\ hr' = [hr EXCEPT ![t] = IF ok THEN S_OK ELSE E_FAIL]
          /\ HostGoto(t, IF ok THEN "Start_setStartedFirst" ELSE "Start_unlock")
    /\ UNCHANGED <<m_RefCount, lockOnlyOneToInvokeStart, m_fStarted, m_fFirstToLoadCLR, pHost,
                   refCount, hostCalls, callDelta, started, stopped>>
    /\ HostFrame

\* m_fFirstToLoadCLR = TRUE
Start_SetFirst(t) ==
    /\ hostPc[t] = "Start_setFirst"
    /\ m_fFirstToLoadCLR' = [m_fFirstToLoadCLR EXCEPT ![pHost[t]] = TRUE]
    /\ HostGoto(t, "Start_incrementFirst")
    /\ UNCHANGED <<g_fEEStarted, m_RefCount, lockOnlyOneToInvokeStart, m_fStarted, pHost, hr,
                   refCount, hostCalls, callDelta, started, stopped>>
    /\ HostFrame

\* return hr: the holder releases the lock
Start_Return(t) ==
    /\ hostPc[t] = "Start_unlock"
    /\ lockOnlyOneToInvokeStart' = 0
    /\ HostGoto(t, "Start_done")
    /\ UNCHANGED <<g_fEEStarted, m_RefCount, m_fStarted, m_fFirstToLoadCLR, pHost, hr,
                   refCount, hostCalls, callDelta, started, stopped>>
    /\ HostFrame

\* the caller has the result of Start() or Stop()
Host_Resume(t) ==
    /\ hostPc[t] \in {"Start_done", "Stop_done"}
    /\ HostGoto(t, "idle")
    /\ UNCHANGED <<g_fEEStarted, m_RefCount, lockOnlyOneToInvokeStart, m_fStarted,
                   m_fFirstToLoadCLR, pHost, hr, refCount, hostCalls, callDelta, started,
                   stopped>>
    /\ HostFrame

\* a host calls Stop() on thread t: if (!g_fEEStarted) return E_UNEXPECTED;
Stop_Call(t) ==
    /\ hostPc[t] = "idle" /\ hostCalls[t] < MaxCalls
    /\ \E h \in Hosts : pHost' = [pHost EXCEPT ![t] = h]
    /\ hostCalls' = [hostCalls EXCEPT ![t] = @ + 1]
    /\ callDelta' = [callDelta EXCEPT ![t] = 0]
    /\ hr' = [hr EXCEPT ![t] = IF g_fEEStarted THEN S_OK ELSE E_UNEXPECTED]
    /\ HostGoto(t, IF g_fEEStarted THEN "Stop_started" ELSE "Stop_done")
    /\ UNCHANGED <<g_fEEStarted, m_RefCount, lockOnlyOneToInvokeStart, m_fStarted,
                   m_fFirstToLoadCLR, refCount, started, stopped>>
    /\ HostFrame

\* if ((!m_fStarted) && ...
Stop_CheckStarted(t) ==
    /\ hostPc[t] = "Stop_started"
    /\ HostGoto(t, IF m_fStarted[pHost[t]] THEN "Stop_read" ELSE "Stop_first")
    /\ UNCHANGED <<g_fEEStarted, m_RefCount, lockOnlyOneToInvokeStart, m_fStarted,
                   m_fFirstToLoadCLR, pHost, hr, refCount, hostCalls, callDelta, started,
                   stopped>>
    /\ HostFrame

\* ... (!m_fFirstToLoadCLR)) hr = HOST_E_CLRNOTAVAILABLE;
Stop_CheckFirst(t) ==
    /\ hostPc[t] = "Stop_first"
    /\ hr' = [hr EXCEPT ![t] = IF m_fFirstToLoadCLR[pHost[t]] THEN @
                               ELSE HOST_E_CLRNOTAVAILABLE]
    /\ HostGoto(t, IF m_fFirstToLoadCLR[pHost[t]] THEN "Stop_read" ELSE "Stop_done")
    /\ UNCHANGED <<g_fEEStarted, m_RefCount, lockOnlyOneToInvokeStart, m_fStarted,
                   m_fFirstToLoadCLR, pHost, refCount, hostCalls, callDelta, started, stopped>>
    /\ HostFrame

\* LONG refCount = m_RefCount; if (refCount == 0) hr = HOST_E_CLRNOTAVAILABLE;
Stop_ReadRefCount(t) ==
    /\ hostPc[t] = "Stop_read"
    /\ refCount' = [refCount EXCEPT ![t] = m_RefCount]
    /\ hr' = [hr EXCEPT ![t] = IF m_RefCount = 0 THEN HOST_E_CLRNOTAVAILABLE ELSE @]
    /\ HostGoto(t, IF m_RefCount = 0 THEN "Stop_done" ELSE "Stop_cas")
    /\ UNCHANGED <<g_fEEStarted, m_RefCount, lockOnlyOneToInvokeStart, m_fStarted,
                   m_fFirstToLoadCLR, pHost, hostCalls, callDelta, started, stopped>>
    /\ HostFrame

\* InterlockedCompareExchange(&m_RefCount, refCount - 1, refCount) == refCount
Stop_Cas(t) ==
    /\ hostPc[t] = "Stop_cas"
    /\ IF m_RefCount = refCount[t]
       THEN /\ m_RefCount' = refCount[t] - 1
            /\ callDelta' = [callDelta EXCEPT ![t] = @ - 1]
            /\ stopped' = [stopped EXCEPT ![pHost[t]] = @ + 1]
            /\ HostGoto(t, "Stop_clear")
       ELSE /\ HostGoto(t, "Stop_read")
            /\ UNCHANGED <<m_RefCount, callDelta, stopped>>
    /\ UNCHANGED <<g_fEEStarted, lockOnlyOneToInvokeStart, m_fStarted, m_fFirstToLoadCLR,
                   pHost, hr, refCount, hostCalls, started>>
    /\ HostFrame

\* m_fStarted = FALSE; if (refCount > 1) hr = S_FALSE;
Stop_ClearStarted(t) ==
    /\ hostPc[t] = "Stop_clear"
    /\ m_fStarted' = [m_fStarted EXCEPT ![pHost[t]] = FALSE]
    /\ hr' = [hr EXCEPT ![t] = IF refCount[t] > 1 THEN S_FALSE ELSE @]
    /\ HostGoto(t, "Stop_done")
    /\ UNCHANGED <<g_fEEStarted, m_RefCount, lockOnlyOneToInvokeStart, m_fFirstToLoadCLR,
                   pHost, refCount, hostCalls, callDelta, started, stopped>>
    /\ HostFrame

StartStep(t) ==
    \/ Start_Call(t)
    \/ Start_Lock(t)
    \/ Start_CheckStarted(t)
    \/ Start_Increment(t)
    \/ Start_SetStarted(t)
    \/ Start_EnsureEEStarted(t)
    \/ Start_SetFirst(t)
    \/ Start_Return(t)
    \/ Host_Resume(t)

StopStep(t) ==
    \/ Stop_Call(t)
    \/ Stop_CheckStarted(t)
    \/ Stop_CheckFirst(t)
    \/ Stop_ReadRefCount(t)
    \/ Stop_Cas(t)
    \/ Stop_ClearStarted(t)

InitHost ==
    /\ ParkedOSR /\ target = "amd64"
    /\ ParkedWalk
    /\ ParkedLibs

\* hosts that only start the runtime
NextStart == \E t \in Threads : StartStep(t)

SpecStart == InitHost /\ [][NextStart]_vars

\* hosts that start and stop it
NextHost == \E t \in Threads : StartStep(t) \/ StopStep(t)

SpecHost == InitHost /\ [][NextHost]_vars

(***************************************************************************)
(* Claims about CorHost2::Start and CorHost2::Stop                         *)
(***************************************************************************)
RECURSIVE SumOver(_, _)
SumOver(f, S) == IF S = {} THEN 0
                 ELSE LET x == CHOOSE x \in S : TRUE IN f[x] + SumOver(f, S \ {x})

\* the host of thread t's call had incremented m_RefCount before this call
StartedBefore(t) == started[pHost[t]] - callDelta[t] >= 1

\* C34: when hosts only call Start(), in any interleaving: a Start() on a host
\* that has started the runtime before returns HOST_E_INVALIDOPERATION and
\* has not changed m_RefCount; a Start() that succeeds has incremented
\* m_RefCount exactly once and one that fails not at all; so m_RefCount is the
\* number of hosts that have started, each counted once.
C34_StartCountsEachHostOnce ==
    /\ \A t \in Threads :
          hostPc[t] \in {"Start_unlock", "Start_done"} =>
              /\ callDelta[t] = (IF SUCCEEDED(hr[t]) THEN 1 ELSE 0)
              /\ hostPc[t] = "Start_unlock" /\ StartedBefore(t) =>
                     hr[t] = HOST_E_INVALIDOPERATION /\ callDelta[t] = 0
    /\ \A h \in Hosts : started[h] <= 1
    /\ m_RefCount = SumOver(started, Hosts)

\* both hosts have started the runtime, and a second Start() on one of them
\* is about to return HOST_E_INVALIDOPERATION
C34_Witness_SecondStartRefused ==
    /\ m_RefCount = 2
    /\ \A h \in Hosts : started[h] = 1
    /\ \E t \in Threads : /\ hostPc[t] = "Start_unlock"
                          /\ hr[t] = HOST_E_INVALIDOPERATION
                          /\ StartedBefore(t)


\* C35: a host that was not the first to load the runtime never lowers
\* m_RefCount more often than it has raised it with Start(), whatever the
\* interleaving of Start() and Stop() calls, concurrent Stop() calls on the
\* same host included; a Stop() of such a host that has never started returns
\* HOST_E_CLRNOTAVAILABLE and leaves m_RefCount alone once the runtime is
\* loaded; m_RefCount never goes below zero.
C35_StopsNeverExceedStarts ==
    /\ \A h \in Hosts : ~m_fFirstToLoadCLR[h] => stopped[h] <= started[h]
    /\ \A t \in Threads :
          /\ hostPc[t] = "Stop_done"
          /\ ~m_fFirstToLoadCLR[pHost[t]] /\ started[pHost[t]] = 0
          /\ hr[t] # E_UNEXPECTED
          => hr[t] = HOST_E_CLRNOTAVAILABLE /\ callDelta[t] = 0
    /\ m_RefCount >= 0

(***************************************************************************)
(* Part IV: the perf jitdump file (pal/src/misc/perfjitdump.cpp)           *)
(* Threads call PerfJitDumpState::LogMethod, one step per access to the    *)
(* state they share.  A record is appended to the file by the writev that  *)
(* completes it.                                                           *)
(***************************************************************************)
DumpGoto(t, l) == dumpPc' = [dumpPc EXCEPT ![t] = l]

DumpFrame == UNCHANGED <<osrVars, walkVars, hostVars>>

\* PerfJitDumpState::FatalError
FatalError ==
    /\ enabled' = FALSE
    /\ fd' = FALSE

\* the JIT calls LogMethod on thread t
LogMethod_Call(t) ==
    /\ dumpPc[t] = "idle" /\ dumpCalls[t] < MaxCalls
    /\ dumpCalls' = [dumpCalls EXCEPT ![t] = @ + 1]
    /\ code_index' = [code_index EXCEPT ![t] = 0]
    /\ DumpGoto(t, "LogMethod_enabled")
    /\ UNCHANGED <<enabled, fd, codeIndex, dumpFile>>
    /\ DumpFrame

\* if (enabled) { ... build the record ...
LogMethod_Enabled(t) ==
    /\ dumpPc[t] = "LogMethod_enabled"
    /\ DumpGoto(t, IF enabled THEN "LogMethod_enabledAgain" ELSE "LogMethod_skipped")
    /\ UNCHANGED <<enabled, fd, codeIndex, dumpFile, code_index, dumpCalls>>
    /\ DumpFrame

\* if (!enabled) goto exit;
LogMethod_EnabledAgain(t) ==
    /\ dumpPc[t] = "LogMethod_enabledAgain"
    /\ DumpGoto(t, IF enabled THEN "LogMethod_load" ELSE "LogMethod_skipped")
    /\ UNCHANGED <<enabled, fd, codeIndex, dumpFile, code_index, dumpCalls>>
    /\ DumpFrame

\* record.code_index = ++codeIndex: the load of the volatile codeIndex ...
LogMethod_LoadIndex(t) ==
    /\ dumpPc[t] = "LogMethod_load"
    /\ code_index' = [code_index EXCEPT ![t] = codeIndex + 1]
    /\ DumpGoto(t, "LogMethod_store")
    /\ UNCHANGED <<enabled, fd, codeIndex, dumpFile, dumpCalls>>
    /\ DumpFrame

\* ... and the store of the incremented value.  The value of the expression
\* is the value stored, or what a further load of the volatile object gives.
LogMethod_StoreIndex(t) ==
    /\ dumpPc[t] = "LogMethod_store"
    /\ codeIndex' = code_index[t]
    /\ \E l \in {"LogMethod_writev", "LogMethod_reload"} : DumpGoto(t, l)
    /\ UNCHANGED <<enabled, fd, dumpFile, code_index, dumpCalls>>
    /\ DumpFrame

LogMethod_ReloadIndex(t) ==
    /\ dumpPc[t] = "LogMethod_reload"
    /\ code_index' = [code_index EXCEPT ![t] = codeIndex]
    /\ DumpGoto(t, "LogMethod_writev")
    /\ UNCHANGED <<enabled, fd, codeIndex, dumpFile, dumpCalls>>
    /\ DumpFrame

\* the do-while around writev(fd, ...): the record gets written, or writev
\* returns -1 with an errno other than EINTR and LogMethod returns FatalError()
LogMethod_Writev(t) ==
    /\ dumpPc[t] = "LogMethod_writev"
    /\ \/ /\ fd
          /\ dumpFile' = Append(dumpFile, [tid |-> t, call |-> dumpCalls[t],
                                           code_index |-> code_index[t]])
          /\ UNCHANGED <<enabled, fd>>
       \/ /\ FatalError
          /\ UNCHANGED dumpFile
    /\ DumpGoto(t, "LogMethod_done")
    /\ UNCHANGED <<codeIndex, code_index, dumpCalls>>
    /\ DumpFrame

\* return
LogMethod_Return(t) ==
    /\ dumpPc[t] \in {"LogMethod_done", "LogMethod_skipped"}
    /\ DumpGoto(t, "idle")
    /\ UNCHANGED <<enabled, fd, codeIndex, dumpFile, code_index, dumpCalls>>
    /\ DumpFrame

LogMethod(t) ==
    \/ LogMethod_Call(t)
    \/ LogMethod_Enabled(t)
    \/ LogMethod_EnabledAgain(t)
    \/ LogMethod_LoadIndex(t)
    \/ LogMethod_StoreIndex(t)
    \/ LogMethod_ReloadIndex(t)
    \/ LogMethod_Writev(t)
    \/ LogMethod_Return(t)

\* Start() has opened the file and enabled the dump, or was never called
InitDump ==
    /\ ParkedOSR /\ target = "amd64"
    /\ ParkedWalk
    /\ ParkedHost
    /\ enabled \in BOOLEAN
    /\ fd = enabled
    /\ codeIndex = 0
    /\ dumpFile = <<>>
    /\ dumpPc = [t \in Threads |-> "idle"]
    /\ code_index = [t \in Threads |-> 0]
    /\ dumpCalls = [t \in Threads |-> 0]

NextDump == \E t \in Threads : LogMethod(t)

SpecDump == InitDump /\ [][NextDump]_vars

\* C36: every record in the file carries a code_index greater than that of
\* every record written before it, whatever the interleaving of the LogMethod
\* calls, and a LogMethod call that finds the dump not enabled writes no
\* record.
C36_CodeIndexIncreasesInFile ==
    /\ \A i, j \in 1..Len(dumpFile) :
          i < j => dumpFile[i].code_index < dumpFile[j].code_index
    /\ \A t \in Threads :
          dumpPc[t] = "LogMethod_skipped" =>
              \A i \in 1..Len(dumpFile) :
                  ~(dumpFile[i].tid = t /\ dumpFile[i].call = dumpCalls[t])

\* the callbacks of the walk so far that were given explicit Frame a
SurfacedExplicit(a) ==
    {i \in DOMAIN trace : /\ trace[i].pos.state \in {SFITER_FRAME_FUNCTION,
                                                     SFITER_SKIPPED_FRAME_FUNCTION}
                          /\ trace[i].pos.addr = a}

\* every unwind of the walk gave the caller's SP, or one that the walk
\* refuses; none gave an SP further down the stack that sends the walk back
\* over frames it has left
UnwindsGoUp == unwindFault = <<>> \/ unwindFault[2] # "low"

InitOutcome ==
    Init([CommonCtor EXCEPT !.threadFrame = start.pFrame, !.exUse = start.exUse],
         NullAddr, 1, flags)

\* C38: when iter.Init succeeds and leaves the iterator invalid, because no
\* position passes the filter, StackWalkFramesEx makes no callback and returns
\* SWA_FAILED, which is also what it returns when Init fails or an unwind
\* fails.
C38_NothingPassesFilterReturnsFailed ==
    (wpc = "done" /\ PopFramesAccepted(flags)) =>
        /\ (InitOutcome[1] /\ ~IsValid(InitOutcome[2])) =>
              trace = <<>> /\ retVal = SWA_FAILED
        /\ ~InitOutcome[1] => trace = <<>> /\ retVal = SWA_FAILED
        /\ (iter.unwindFaulted /\ unwindFault[2] = "fail") => retVal = SWA_FAILED

\* a walk that skips every explicit frame has returned from a stack that
\* holds explicit frames only: Init succeeded, nothing was surfaced
C38_Witness_EveryFrameFilteredOut ==
    /\ wpc = "done" /\ PopFramesAccepted(flags)
    /\ InitOutcome[1] /\ ~IsValid(InitOutcome[2])
    /\ ExplicitFrames # {}
    /\ log = <<"Init", "return">>
    /\ retVal = SWA_FAILED

\* C39: in every reachable state of a patchpoint record a non-null
\* m_osrMethodCode and patchpoint_invalid never hold together, and each of the
\* two implies that patchpoint_triggered is set.
C39_CodeAndInvalidExcludeAndImplyTriggered ==
    \A p \in Patchpoints :
        /\ ~(m_osrMethodCode[p] # NULL /\ patchpoint_invalid \in m_flags[p])
        /\ m_osrMethodCode[p] # NULL => patchpoint_triggered \in m_flags[p]
        /\ patchpoint_invalid \in m_flags[p] => patchpoint_triggered \in m_flags[p]

\* one patchpoint of the method has its OSR method and another one was
\* marked invalid after its compilation failed
C39_Witness_OneCompiledOneInvalid ==
    \E p, q \in Patchpoints :
        /\ m_osrMethodCode[p] # NULL /\ m_flags[p] = {patchpoint_triggered}
        /\ m_osrMethodCode[q] = NULL
        /\ m_flags[q] = {patchpoint_triggered, patchpoint_invalid}
        /\ \E i \in DOMAIN jitCalls : jitCalls[i][2] = NULL

\* Init, ResetRegDisp or Next has just returned without failing and the
\* process is alive
AfterIteratorCall ==
    /\ log # <<>>
    /\ ~Stopped(iter)
    /\ \/ wpc = "isvalid" /\ log[Len(log)] \in {"Init", "Next"}
       \/ wpc = "client" /\ log[Len(log)] = "Client_Init"
       \/ wpc = "client" /\ log[Len(log)] = "Client_Next" /\ retVal # SWA_FAILED
       \/ wpc = "clientdone" /\ log[Len(log)] = "Client_ResetRegDisp"

\* C40 as stated: after Init, ResetRegDisp or a Next that does not fail the
\* frame state is not SFITER_UNINITIALIZED, and IsValid() is false exactly
\* when the frame state is SFITER_DONE.
C40_Original_InvalidExactlyWhenDone ==
    AfterIteratorCall =>
        /\ iter.m_frameState # SFITER_UNINITIALIZED
        /\ ~IsValid(iter) <=> iter.m_frameState = SFITER_DONE


\* C40: after Init, ResetRegDisp or a Next that does not fail the frame state
\* is not SFITER_UNINITIALIZED; IsValid() is false when the frame state is
\* SFITER_DONE, and also at an SFITER_INITIAL_NATIVE_CONTEXT position whose
\* explicit Frame chain is empty and which has no exception context left to
\* resume from (ELIMINATE_FEF builds), and in no other state.
C40_InvalidWhenDoneOrNativeContextWithoutFrames ==
    AfterIteratorCall =>
        /\ iter.m_frameState # SFITER_UNINITIALIZED
        /\ ~IsValid(iter) <=>
              \/ iter.m_frameState = SFITER_DONE
              \/ /\ iter.m_frameState = SFITER_INITIAL_NATIVE_CONTEXT
                 /\ iter.pFrame = FRAME_TOP
                 /\ ~(ELIMINATE_FEF /\ GetContext(WalkToManaged(iter)) # NullAddr)

\* Init was given the context of a thread in native code that has no
\* explicit Frame: the iterator is at the initial native context and invalid
C40_Witness_NativeContextWithoutFrames ==
    /\ AfterIteratorCall
    /\ log[Len(log)] \in {"Init", "Client_Init"}
    /\ iter.m_frameState = SFITER_INITIAL_NATIVE_CONTEXT
    /\ iter.pFrame = FRAME_TOP
    /\ ~IsValid(iter)

\* a Next that did not fail has taken the iterator to the end of the stack
C40_Witness_NextReachedDone ==
    /\ AfterIteratorCall
    /\ log[Len(log)] = "Next" /\ retVal # SWA_FAILED
    /\ iter.m_frameState = SFITER_DONE
    /\ ~IsValid(iter)

====
